---- MODULE Spec2Model ----
(***************************************************************************)
(* Media reconciliation of the signage player (src/src/media_sync.py):     *)
(* the lock manager (acquire_lock), the reconciler (sync) and the playlist *)
(* publication, as a state machine over the lock file, the media           *)
(* directory and the playlist file; and its power control                  *)
(* (src/src/power_control.py): the schedule decision and the CEC commands; *)
(* the schedule sync (src/src/scheduler_sync.py) that caches the schedule, *)
(* and the health check (src/src/health_check.py).                         *)
(*                                                                         *)
(* A server path ("campaigns/a.mp4") is the sequence of its "/"-separated  *)
(* components (<<"campaigns", "a.mp4">>); a trailing "/" leaves a last     *)
(* component "".  Time is in whole seconds.                                *)
(***************************************************************************)
EXTENDS Integers, Sequences, FiniteSets, TLC

----------------------------------------------------------------------------
(* Bounds of the model *)

\* longest manifest the backend returns
MaxManifest == 2
\* sync() runs per process in the sequential specifications
MaxCycles == 2
\* clock advances in the concurrent specification
MaxTicks == 2
\* sync() runs per process in the concurrent specification
MaxConcRuns == 1
\* longest schedule document
MaxRules == 2
\* runs of power control in the specification of consecutive runs
MaxPowerRuns == 2
\* runs of the health check
MaxPings == 3
\* download attempts of the archive sync (the configured MAX_RETRIES)
MaxRetries == 2

----------------------------------------------------------------------------
(* Program constants *)

LOCK_STALE_SECONDS == 3600

MEDIA_DIR == <<"BASE_DIR", "media">>

PLAYLIST_NAME == "playlist.m3u"

\* SCHEDULE_FILE is MEDIA_DIR / "schedule.json"
SCHEDULE_NAME == "schedule.json"

----------------------------------------------------------------------------
(* Paths and names *)

\* the largest element of a non-empty set of integers
MaxOf(S) == CHOOSE x \in S : \A y \in S : y <= x

\* pathlib: Path(p).name, the last non-empty component ("" when there is none)
PathName(p) ==
    LET idx == {i \in 1..Len(p) : p[i] # ""}
    IN  IF idx = {} THEN "" ELSE p[MaxOf(idx)]

\* str: media_file.split("/")[-1], the text after the last "/"
SplitLast(p) == p[Len(p)]

\* pathlib: MEDIA_DIR / filename (joining "" gives MEDIA_DIR itself)
LocalPath(filename) ==
    IF filename = "" THEN MEDIA_DIR ELSE Append(MEDIA_DIR, filename)

\* item.get("media_file") is missing or empty
NoFile == <<>>

Item(path) == [media_file |-> path]

----------------------------------------------------------------------------
(* The playlist document: a sequence of lines *)

HeaderLine == [kind |-> "#EXTM3U", server |-> <<>>, name |-> "", local |-> <<>>]

InfLine(media_file, filename) ==
    [kind |-> "#EXTINF", server |-> media_file, name |-> filename, local |-> <<>>]

PathLine(local_path) ==
    [kind |-> "path", server |-> <<>>, name |-> "", local |-> local_path]

RECURSIVE PlaylistLines(_)
PlaylistLines(campaigns) ==
    IF campaigns = <<>> THEN <<>>
    ELSE LET item == Head(campaigns)
             media_file == item.media_file
             filename == SplitLast(media_file)
         IN  (IF media_file # NoFile
              THEN <<InfLine(media_file, filename), PathLine(LocalPath(filename))>>
              ELSE <<>>)
             \o PlaylistLines(Tail(campaigns))

\* generate_playlist_content: header, then two lines per item with a media_file
generate_playlist_content(campaigns) == <<HeaderLine>> \o PlaylistLines(campaigns)

\* the playlist file: absent, or a document
NoPlaylist == [exists |-> FALSE, lines |-> <<>>]

PlaylistFile(doc) == [exists |-> TRUE, lines |-> doc]

\* the file right after open(..., "w"): zero length
Truncated == PlaylistFile(<<>>)

\* get_playlist_media_names without the skip of the "#" lines
get_playlist_media_names_all(file) ==
    IF ~file.exists THEN {}
    ELSE {PathName(file.lines[i].local) : i \in 1..Len(file.lines)}

\* get_playlist_media_names: names of the lines that are not comments
get_playlist_media_names(file) ==
    IF ~file.exists THEN {}
    ELSE {PathName(file.lines[i].local) :
             i \in {j \in 1..Len(file.lines) : file.lines[j].kind = "path"}}

----------------------------------------------------------------------------
(* The target set of sync(): lines 320-328 *)

\* target_filenames
TargetNames(campaigns) ==
    {PathName(campaigns[i].media_file) :
        i \in {j \in 1..Len(campaigns) : campaigns[j].media_file # NoFile}}

\* target_files_map[basename]: the last item with that basename wins
TargetPath(campaigns, basename) ==
    LET idx == {i \in 1..Len(campaigns) :
                   /\ campaigns[i].media_file # NoFile
                   /\ PathName(campaigns[i].media_file) = basename}
    IN  campaigns[MaxOf(idx)].media_file

----------------------------------------------------------------------------
(* The lock file /tmp/vlc-sync.lock: absent, unparsable, or "pid:timestamp" *)

NoLock == [exists |-> FALSE, parsable |-> FALSE, pid |-> 0, ts |-> 0]

CorruptLock == [exists |-> TRUE, parsable |-> FALSE, pid |-> 0, ts |-> 0]

LockRecord(pid, ts) == [exists |-> TRUE, parsable |-> TRUE, pid |-> pid, ts |-> ts]

\* the parse of the lock file with pid 0 for a record that does not parse
ReadLockAsPidZero(file) ==
    [known |-> file.exists,
     old_pid |-> IF file.exists /\ file.parsable THEN file.pid ELSE 0,
     old_ts |-> IF file.exists /\ file.parsable THEN file.ts ELSE 0]

\* lines 63-71: the parse of the lock file; known = FALSE is old_pid = None
\* (a file that vanished since exists() makes read_text raise: same branch)
ReadLock(file) ==
    IF file.exists /\ file.parsable
    THEN [known |-> TRUE, old_pid |-> file.pid, old_ts |-> file.ts]
    ELSE [known |-> FALSE, old_pid |-> 0, old_ts |-> 0]

\* IsStale with the age compared by >= instead of >
IsStaleFrom(t, old_ts) == old_ts # 0 /\ t - old_ts >= LOCK_STALE_SECONDS

\* lines 74-75: age is None when old_ts is falsy (0.0), and then never stale
IsStale(t, old_ts) == old_ts # 0 /\ t - old_ts > LOCK_STALE_SECONDS

\* is_process_running with the results of the two except branches swapped
is_process_running_swapped(outcome) ==
    CASE outcome = "nosuch" -> TRUE
      [] outcome = "perm" -> FALSE
      [] OTHER -> TRUE

\* is_process_running on the outcome of os.kill(pid, 0)
is_process_running(outcome) ==
    CASE outcome = "nosuch" -> FALSE
      [] outcome = "perm" -> TRUE
      [] OTHER -> TRUE

----------------------------------------------------------------------------
(* The cached schedule MEDIA_DIR / "schedule.json" *)

\* a JSON document: a list, null, or a non-empty object
JsonList(items) == [type |-> "list", items |-> items]

JsonNull == [type |-> "null", items |-> <<>>]

JsonObject == [type |-> "object", items |-> <<>>]

\* the schedule file: absent, not JSON, or a document
NoScheduleFile == [exists |-> FALSE, json |-> FALSE, doc |-> JsonNull]

BadScheduleFile == [exists |-> TRUE, json |-> FALSE, doc |-> JsonNull]

ScheduleFile(doc) == [exists |-> TRUE, json |-> TRUE, doc |-> doc]

----------------------------------------------------------------------------
(* State *)

\* the sync processes (their pids) and the pids of other programs
Procs == {101, 102}

ExtPids == {7}

VARIABLES
    now,        \* time.time()
    ticks,      \* clock advances so far
    lock,       \* SYNC_LOCK
    extern,     \* os.kill(pid, 0) outcome for the pids of other programs
    manifest,   \* what the backend returns to fetch_campaigns
    disk,       \* names of the regular files of MEDIA_DIR but the playlist
    playlist,   \* MEDIA_DIR / "playlist.m3u"
    pc,         \* where each sync process is
    loc,        \* each process's local variables
    run,        \* history of each process's current (or last) run
    prev,       \* history of each process's run before that
    stats,      \* totals over all runs
    observed,   \* what the player read last from the playlist path
    schedule_file,  \* SCHEDULE_FILE, the cached schedule
    wall,       \* datetime.now(): weekday and time of day
    tv,         \* the power state of the display
    ppc,        \* where the power-control process is
    ploc,       \* its local variables
    cec,        \* the cec-client invocations of its current (or last) run
    phist,      \* its runs so far and what the run before did
    spc,        \* where the schedule-sync process is
    sloc,       \* its local variables
    srun,       \* history of its current (or last) run
    hpc,        \* where the health-check process is
    hrun,       \* history of its runs
    apc,        \* where the archive-sync process is
    media_dir,  \* MEDIA_DIR as the archive sync and its player see it
    staging_dir,    \* STAGING_DIR
    sync_lock,  \* whether /tmp/vlc-sync.lock exists
    arun,       \* configuration and history of the archive sync's run
    seen        \* the media directory as the player found it last

\* the variables of power control
power == <<schedule_file, wall, tv, ppc, ploc, cec, phist>>

\* the variables of the schedule sync
sched == <<spc, sloc, srun>>

\* the variables of the health check
health == <<hpc, hrun>>

\* the variables of the archive sync and its player
archive == <<apc, media_dir, staging_dir, sync_lock, arun, seen>>

\* the variables of the media sync and the player
media == <<now, ticks, lock, extern, manifest, disk, playlist, pc, loc, run,
           prev, stats, observed>>

vars == <<now, ticks, lock, extern, manifest, disk, playlist, pc, loc, run,
          prev, stats, observed, schedule_file, wall, tv, ppc, ploc, cec, phist,
          spc, sloc, srun, hpc, hrun, apc, media_dir, staging_dir, sync_lock,
          arun, seen>>

\* local variables before sync() is entered
NoLocals ==
    [force |-> FALSE,
     old |-> ReadLock(NoLock),
     now |-> 0,
     campaigns |-> <<>>,
     existing_files_on_disk |-> {},
     missing_files |-> {},
     unused_files |-> {}]

\* history of a run that has not done anything yet
NoRun ==
    [started |-> FALSE,
     lock0 |-> NoLock,          \* until acquire_lock returned: the lock file and
     now0 |-> 0,                \*   the clock when it was entered,
     force |-> FALSE,           \*   and its argument
     disk0 |-> {},              \* until differences are detected: the media
     playlist0 |-> NoPlaylist,  \*   files and the playlist when it was entered
     acquired |-> "pending",    \* result of acquire_lock: "yes" / "no"
     probes |-> 0,              \*   and its calls of is_process_running
     fetched |-> FALSE,
     fetches |-> 0,             \* calls of fetch_campaigns
     response |-> {},           \* what the backend answered to the fetch
     outcome |-> "none",        \* "skipped", "unchanged", "synced", "fetch_failed", "failed"
     scanned |-> FALSE,         \* the media directory was listed (line 349)
     missing |-> {},            \* missing_files and unused_files as computed
     unused |-> {},             \*   at lines 351 and 361
     downloads |-> {},          \* server paths passed to download_media_file
     calls |-> 0,               \*   and the number of its calls
     attempted |-> {},          \* basenames whose download was attempted
     failed |-> {},             \* basenames whose download failed
     removed |-> {},            \* basenames deleted
     keptOnError |-> {},        \* basenames whose deletion failed
     writes |-> 0,              \* playlist writes attempted
     written |-> FALSE,         \* the playlist write completed
     exit |-> 0]

\* what is remembered of a run once the next one starts
Summary(r) ==
    [NoRun EXCEPT !.started = r.started, !.outcome = r.outcome,
                  !.attempted = r.attempted, !.failed = r.failed,
                  !.removed = r.removed, !.written = r.written]

\* os.kill(pid, 0): a sync process exists while it runs
Probe(pid) ==
    IF pid \in Procs
    THEN (IF pc[pid] # "idle" THEN "ok" ELSE "nosuch")
    ELSE IF pid \in DOMAIN extern THEN extern[pid] ELSE "nosuch"

----------------------------------------------------------------------------
(* acquire_lock, one step per file-system or clock access *)

\* sync(force) is invoked: a new process
Start(p) ==
    /\ pc[p] = "idle"
    /\ stats.runs[p] < stats.limit
    /\ \E force \in BOOLEAN :
          /\ loc' = [loc EXCEPT ![p] = [NoLocals EXCEPT !.force = force]]
          /\ run' = [run EXCEPT ![p] = [NoRun EXCEPT !.started = TRUE,
                                                     !.lock0 = lock,
                                                     !.now0 = now,
                                                     !.force = force,
                                                     !.disk0 = disk,
                                                     !.playlist0 = playlist]]
    /\ prev' = [prev EXCEPT ![p] = Summary(run[p])]
    /\ pc' = [pc EXCEPT ![p] = "start"]
    /\ UNCHANGED <<power, sched, health, archive, now, ticks, lock, extern, manifest, disk, playlist, stats, observed>>

\* line 56: SYNC_LOCK.exists()
LockExists(p) ==
    /\ pc[p] = "start"
    /\ pc' = [pc EXCEPT ![p] = IF lock.exists THEN "lk_present" ELSE "lk_absent"]
    /\ UNCHANGED <<power, sched, health, archive, now, ticks, lock, extern, manifest, disk, playlist, loc, run,
                   prev, stats, observed>>

\* the fast path with the lock file created empty
LockCreateEmpty(p) ==
    /\ pc[p] = "lk_absent"
    /\ lock' = CorruptLock
    /\ run' = [run EXCEPT ![p].acquired = "yes"]
    /\ loc' = [loc EXCEPT ![p] = NoLocals]
    /\ pc' = [pc EXCEPT ![p] = "locked"]
    /\ UNCHANGED <<power, sched, health, archive, now, ticks, extern, manifest, disk, playlist, prev, stats, observed>>

\* lines 57-60: fast path, write pid:now and return True
LockCreate(p) ==
    /\ pc[p] = "lk_absent"
    /\ lock' = LockRecord(p, now)
    /\ run' = [run EXCEPT ![p].acquired = "yes"]
    /\ loc' = [loc EXCEPT ![p] = NoLocals]
    /\ pc' = [pc EXCEPT ![p] = "locked"]
    /\ UNCHANGED <<power, sched, health, archive, now, ticks, extern, manifest, disk, playlist, prev, stats, observed>>

\* lines 63-71: read and parse the lock file
LockRead(p) ==
    /\ pc[p] = "lk_present"
    /\ loc' = [loc EXCEPT ![p].old = ReadLock(lock)]
    /\ pc' = [pc EXCEPT ![p] = "lk_decide"]
    /\ UNCHANGED <<power, sched, health, archive, now, ticks, lock, extern, manifest, disk, playlist, run, prev,
                   stats, observed>>

\* line 76: is_process_running is called only when old_pid is not None
Probes(old) == IF old.known THEN 1 ELSE 0

\* lines 73-76
LockBlocked(old, t, outcome) ==
    LET is_stale == IsStale(t, old.old_ts)
        running == old.known /\ is_process_running(outcome)
    IN  running /\ ~is_stale

\* LockRefuse with the return of line 305 inside the try: the finally block runs
LockRefuseInTry(p) ==
    /\ pc[p] = "lk_decide"
    /\ LockBlocked(loc[p].old, now, Probe(loc[p].old.old_pid))
    /\ run' = [run EXCEPT ![p].acquired = "no", ![p].outcome = "skipped",
                          ![p].probes = Probes(loc[p].old), ![p].exit = 0]
    /\ pc' = [pc EXCEPT ![p] = "finally"]
    /\ loc' = [loc EXCEPT ![p] = NoLocals]
    /\ stats' = [stats EXCEPT !.other = TRUE]
    /\ UNCHANGED <<power, sched, health, archive, now, ticks, lock, extern, manifest, disk, playlist, prev, observed>>

\* lines 73-87: the owner is active, return False (sync returns at line 305)
LockRefuse(p) ==
    /\ pc[p] = "lk_decide"
    /\ LockBlocked(loc[p].old, now, Probe(loc[p].old.old_pid))
    /\ run' = [run EXCEPT ![p].acquired = "no", ![p].outcome = "skipped",
                          ![p].probes = Probes(loc[p].old), ![p].exit = 0]
    /\ pc' = [pc EXCEPT ![p] = "idle"]
    /\ loc' = [loc EXCEPT ![p] = NoLocals]
    /\ stats' = [stats EXCEPT !.runs[p] = @ + 1, !.other = TRUE]
    /\ UNCHANGED <<power, sched, health, archive, now, ticks, lock, extern, manifest, disk, playlist, prev, observed>>

\* LockDecide with force overriding the lock of an active owner
LockDecideForced(p) ==
    /\ pc[p] = "lk_decide"
    /\ \/ ~LockBlocked(loc[p].old, now, Probe(loc[p].old.old_pid))
       \/ loc[p].force
    /\ loc' = [loc EXCEPT ![p].now = now]
    /\ run' = [run EXCEPT ![p].probes = Probes(loc[p].old)]
    /\ pc' = [pc EXCEPT ![p] = "lk_unlink"]
    /\ UNCHANGED <<power, sched, health, archive, now, ticks, lock, extern, manifest, disk, playlist, prev,
                   stats, observed>>

\* lines 73-96: no active owner or a stale lock, go on to override
LockDecide(p) ==
    /\ pc[p] = "lk_decide"
    /\ ~LockBlocked(loc[p].old, now, Probe(loc[p].old.old_pid))
    /\ loc' = [loc EXCEPT ![p].now = now]
    /\ run' = [run EXCEPT ![p].probes = Probes(loc[p].old)]
    /\ pc' = [pc EXCEPT ![p] = "lk_unlink"]
    /\ UNCHANGED <<power, sched, health, archive, now, ticks, lock, extern, manifest, disk, playlist, prev,
                   stats, observed>>

\* line 98: SYNC_LOCK.unlink(missing_ok=True)
LockUnlink(p) ==
    /\ pc[p] = "lk_unlink"
    /\ lock' = NoLock
    /\ pc' = [pc EXCEPT ![p] = "lk_write"]
    /\ UNCHANGED <<power, sched, health, archive, now, ticks, extern, manifest, disk, playlist, loc, run, prev,
                   stats, observed>>

\* lines 99-101: write pid:now (the now of line 73) and return True
LockWrite(p) ==
    /\ pc[p] = "lk_write"
    /\ lock' = LockRecord(p, loc[p].now)
    /\ run' = [run EXCEPT ![p].acquired = "yes"]
    /\ loc' = [loc EXCEPT ![p] = NoLocals]
    /\ pc' = [pc EXCEPT ![p] = "locked"]
    /\ UNCHANGED <<power, sched, health, archive, now, ticks, extern, manifest, disk, playlist, prev, stats, observed>>

----------------------------------------------------------------------------
(* sync, after the lock was acquired: lines 307-389 *)

\* AfterScan without the loop of lines 362-370
AfterScanNoRemoval(missing, unused) ==
    IF missing # {} THEN "download"
    ELSE "write"

\* where the reconciliation goes on after n downloads or deletions are left
AfterScan(missing, unused) ==
    IF missing # {} THEN "download"
    ELSE IF unused # {} THEN "delete"
    ELSE "write"

\* one request to the backend: is API_URL set, does the connection succeed,
\* the HTTP status, and whether the body is JSON
Response(api_url, reachable, status, json) ==
    [api_url |-> api_url, reachable |-> reachable, status |-> status, json |-> json]

Responses ==
    {Response(TRUE, TRUE, 200, TRUE),
     Response(FALSE, TRUE, 200, TRUE),
     Response(TRUE, FALSE, 200, TRUE),
     Response(TRUE, TRUE, 500, TRUE),
     Response(TRUE, TRUE, 204, TRUE),
     Response(TRUE, TRUE, 200, FALSE)}

Raised(why) == [raised |-> TRUE, why |-> why, value |-> <<>>]

Returns(value) == [raised |-> FALSE, why |-> "", value |-> value]

\* fetch_campaigns without the check of the status at line 199
fetch_campaigns_any_status(resp, data) ==
    IF ~resp.api_url THEN Raised("API_URL is not configured")
    ELSE IF ~resp.reachable THEN Raised("API Connection Error")
    ELSE IF resp.status >= 400 THEN Raised("API HTTP Error")
    ELSE IF ~resp.json THEN Raised("Failed to decode API response JSON")
    ELSE Returns(data)

\* fetch_campaigns (lines 178-213) on a response, data the manifest it carries;
\* urlopen raises HTTPError for a status of 400 and above
fetch_campaigns(resp, data) ==
    IF ~resp.api_url THEN Raised("API_URL is not configured")
    ELSE IF ~resp.reachable THEN Raised("API Connection Error")
    ELSE IF resp.status >= 400 THEN Raised("API HTTP Error")
    ELSE IF resp.status # 200 THEN Raised("API returned status")
    ELSE IF ~resp.json THEN Raised("Failed to decode API response JSON")
    ELSE Returns(data)

\* lines 313-315: fetch_campaigns returned the manifest
Fetch(p) ==
    /\ pc[p] = "locked"
    /\ \E resp \in Responses :
          LET r == fetch_campaigns(resp, manifest)
          IN  /\ ~r.raised
              /\ loc' = [loc EXCEPT ![p].campaigns = r.value]
              /\ run' = [run EXCEPT ![p].fetched = TRUE, ![p].fetches = @ + 1,
                                    ![p].response = {resp}, ![p].lock0 = NoLock, ![p].probes = 0,
                                    ![p].now0 = 0, ![p].force = FALSE]
    /\ pc' = [pc EXCEPT ![p] = "fetched"]
    /\ UNCHANGED <<power, sched, health, archive, now, ticks, lock, extern, manifest, disk, playlist, prev,
                   stats, observed>>

\* FetchFail with the exit outside the try: the finally block is not run
FetchFailNoFinally(p) ==
    /\ pc[p] = "locked"
    /\ \E resp \in Responses :
          /\ fetch_campaigns(resp, manifest).raised
          /\ run' = [run EXCEPT ![p].outcome = "fetch_failed", ![p].exit = 1,
                                ![p].fetches = @ + 1, ![p].response = {resp},
                                ![p].lock0 = NoLock, ![p].probes = 0, ![p].now0 = 0,
                                ![p].force = FALSE]
    /\ stats' = [stats EXCEPT !.other = TRUE, !.runs[p] = @ + 1]
    /\ pc' = [pc EXCEPT ![p] = "idle"]
    /\ loc' = [loc EXCEPT ![p] = NoLocals]
    /\ UNCHANGED <<power, sched, health, archive, now, ticks, lock, extern, manifest, disk, playlist, prev, observed>>

\* lines 316-318: fetch_campaigns raised, sys.exit(1)
FetchFail(p) ==
    /\ pc[p] = "locked"
    /\ \E resp \in Responses :
          /\ fetch_campaigns(resp, manifest).raised
          /\ run' = [run EXCEPT ![p].outcome = "fetch_failed", ![p].exit = 1,
                                ![p].fetches = @ + 1, ![p].response = {resp},
                                ![p].lock0 = NoLock, ![p].probes = 0, ![p].now0 = 0,
                                ![p].force = FALSE]
    /\ stats' = [stats EXCEPT !.other = TRUE]
    /\ pc' = [pc EXCEPT ![p] = "finally"]
    /\ UNCHANGED <<power, sched, health, archive, now, ticks, lock, extern, manifest, disk, playlist, loc, prev,
                   observed>>

\* the regular files of MEDIA_DIR: the media files, and the cached schedule
\* when there is one
MediaFiles == disk \cup (IF schedule_file.exists THEN {SCHEDULE_NAME} ELSE {})

\* line 349: the regular files of MEDIA_DIR other than the playlist
ExistingFiles(files) == {f \in files : f # PLAYLIST_NAME}

\* the comparison of line 334 made with the files on disk
NoChangesOnDisk(campaigns, file) == TargetNames(campaigns) = ExistingFiles(disk)

\* line 334: target_filenames == current_filenames
NoChanges(campaigns, file) ==
    TargetNames(campaigns) = get_playlist_media_names(file)

\* lines 330-338: the playlist names the target files, return
CompareSame(p) ==
    /\ pc[p] = "fetched"
    /\ NoChanges(loc[p].campaigns, playlist)
    /\ run' = [run EXCEPT ![p].outcome = "unchanged"]
    /\ pc' = [pc EXCEPT ![p] = "finally"]
    /\ UNCHANGED <<power, sched, health, archive, now, ticks, lock, extern, manifest, disk, playlist, loc, prev,
                   stats, observed>>

\* lines 330-340: differences detected
CompareDiff(p) ==
    /\ pc[p] = "fetched"
    /\ ~NoChanges(loc[p].campaigns, playlist)
    /\ run' = [run EXCEPT ![p].outcome = "differences", ![p].disk0 = {},
                          ![p].playlist0 = NoPlaylist]
    /\ pc' = [pc EXCEPT ![p] = "scan"]
    /\ UNCHANGED <<power, sched, health, archive, now, ticks, lock, extern, manifest, disk, playlist, loc, prev,
                   stats, observed>>

\* line 351: missing_files
MissingFiles(target_filenames, existing) == target_filenames \ existing

\* UnusedFiles without the subtraction of the target names
UnusedFilesAll(existing, target_filenames) == existing

\* line 361: unused_files
UnusedFiles(existing, target_filenames) == existing \ target_filenames

\* lines 343-361: list the directory, missing and unused files
ScanDisk(p) ==
    /\ pc[p] = "scan"
    /\ LET target_filenames == TargetNames(loc[p].campaigns)
           existing == ExistingFiles(MediaFiles)
           missing == MissingFiles(target_filenames, existing)
           unused == UnusedFiles(existing, target_filenames)
       IN  /\ loc' = [loc EXCEPT ![p].existing_files_on_disk = existing,
                                 ![p].missing_files = missing,
                                 ![p].unused_files = unused]
           /\ run' = [run EXCEPT ![p].scanned = TRUE, ![p].missing = missing,
                                 ![p].unused = unused]
           /\ pc' = [pc EXCEPT ![p] = AfterScan(missing, unused)]
    /\ UNCHANGED <<power, sched, health, archive, now, ticks, lock, extern, manifest, disk, playlist, prev,
                   stats, observed>>

\* lines 343, 349: mkdir or iterdir raised; lines 384-386: sys.exit(1)
ScanFail(p) ==
    /\ pc[p] = "scan"
    /\ run' = [run EXCEPT ![p].outcome = "failed", ![p].exit = 1]
    /\ stats' = [stats EXCEPT !.other = TRUE]
    /\ pc' = [pc EXCEPT ![p] = "finally"]
    /\ UNCHANGED <<power, sched, health, archive, now, ticks, lock, extern, manifest, disk, playlist, loc, prev,
                   observed>>

\* lines 354-356, download_media_file returned True: the file is in MEDIA_DIR
DownloadOk(p) ==
    /\ pc[p] = "download"
    /\ \E filename \in loc[p].missing_files :
          LET server_path == TargetPath(loc[p].campaigns, filename)
              rest == loc[p].missing_files \ {filename}
          IN  /\ disk' = disk \cup {PathName(server_path)}
              /\ loc' = [loc EXCEPT ![p].missing_files = rest]
              /\ run' = [run EXCEPT ![p].attempted = @ \cup {filename},
                                    ![p].downloads = @ \cup {server_path},
                                    ![p].calls = @ + 1]
              /\ pc' = [pc EXCEPT ![p] = AfterScan(rest, loc[p].unused_files)]
    /\ UNCHANGED <<power, sched, health, archive, now, ticks, lock, extern, manifest, playlist, prev, stats, observed>>

\* lines 354-356, download_media_file returned False: the partial file is removed
DownloadFail(p) ==
    /\ pc[p] = "download"
    /\ \E filename \in loc[p].missing_files :
          LET server_path == TargetPath(loc[p].campaigns, filename)
              rest == loc[p].missing_files \ {filename}
          IN  /\ disk' = disk \ {PathName(server_path)}
              /\ loc' = [loc EXCEPT ![p].missing_files = rest]
              /\ run' = [run EXCEPT ![p].attempted = @ \cup {filename},
                                    ![p].failed = @ \cup {filename},
                                    ![p].downloads = @ \cup {server_path},
                                    ![p].calls = @ + 1]
              /\ pc' = [pc EXCEPT ![p] = AfterScan(rest, loc[p].unused_files)]
    /\ stats' = [stats EXCEPT !.dlFails = @ + 1]
    /\ UNCHANGED <<power, sched, health, archive, now, ticks, lock, extern, manifest, playlist, prev, observed>>

\* lines 265-269 and 384-386: the download failed while the target path exists
\* and is not a regular file (a directory of that name), and the unlink of
\* line 269 raised; the exception leaves download_media_file and sync exits
\* with 1
DownloadCleanupFail(p) ==
    /\ pc[p] = "download"
    /\ \E filename \in loc[p].missing_files :
          LET server_path == TargetPath(loc[p].campaigns, filename)
          IN  /\ run' = [run EXCEPT ![p].attempted = @ \cup {filename},
                                    ![p].failed = @ \cup {filename},
                                    ![p].downloads = @ \cup {server_path},
                                    ![p].calls = @ + 1,
                                    ![p].outcome = "failed",
                                    ![p].exit = 1]
    /\ stats' = [stats EXCEPT !.dlFails = @ + 1, !.other = TRUE]
    /\ pc' = [pc EXCEPT ![p] = "finally"]
    /\ UNCHANGED <<power, sched, health, archive, now, ticks, lock, extern, manifest, disk, playlist, loc, prev,
                   observed>>

\* lines 364-368: the unused file is removed
DeleteOk(p) ==
    /\ pc[p] = "delete"
    /\ \E filename \in loc[p].unused_files :
          LET rest == loc[p].unused_files \ {filename}
          IN  /\ filename \in MediaFiles
              /\ disk' = disk \ {filename}
              /\ schedule_file' = IF filename = SCHEDULE_NAME THEN NoScheduleFile
                                  ELSE schedule_file
              /\ loc' = [loc EXCEPT ![p].unused_files = rest]
              /\ run' = [run EXCEPT ![p].removed = @ \cup {filename}]
              /\ pc' = [pc EXCEPT ![p] = AfterScan({}, rest)]
    /\ UNCHANGED <<wall, tv, ppc, ploc, cec, phist, sched, health, archive, now, ticks, lock, extern,
                   manifest, playlist, prev, stats, observed>>

\* lines 364-370: unlink raised, the file is skipped
DeleteFail(p) ==
    /\ pc[p] = "delete"
    /\ \E filename \in loc[p].unused_files :
          LET rest == loc[p].unused_files \ {filename}
          IN  /\ loc' = [loc EXCEPT ![p].unused_files = rest]
              /\ run' = [run EXCEPT ![p].keptOnError = @ \cup {filename}]
              /\ pc' = [pc EXCEPT ![p] = AfterScan({}, rest)]
    /\ stats' = [stats EXCEPT !.other = TRUE]
    /\ UNCHANGED <<power, sched, health, archive, now, ticks, lock, extern, manifest, disk, playlist, prev, observed>>

\* line 377, write_text opens the playlist path for writing: the file is empty
WriteOpen(p) ==
    /\ pc[p] = "write"
    /\ playlist' = Truncated
    /\ run' = [run EXCEPT ![p].writes = @ + 1]
    /\ pc' = [pc EXCEPT ![p] = "writing"]
    /\ UNCHANGED <<power, sched, health, archive, now, ticks, lock, extern, manifest, disk, loc, prev, stats, observed>>

\* lines 377-380: the open raised, the playlist is as it was
WriteOpenFail(p) ==
    /\ pc[p] = "write"
    /\ run' = [run EXCEPT ![p].writes = @ + 1, ![p].outcome = "synced"]
    /\ stats' = [stats EXCEPT !.other = TRUE]
    /\ pc' = [pc EXCEPT ![p] = "finally"]
    /\ UNCHANGED <<power, sched, health, archive, now, ticks, lock, extern, manifest, disk, playlist, loc, prev,
                   observed>>

\* lines 375-378: the content is written and the file closed
WriteFlush(p) ==
    /\ pc[p] = "writing"
    /\ playlist' = PlaylistFile(generate_playlist_content(loc[p].campaigns))
    /\ run' = [run EXCEPT ![p].written = TRUE, ![p].outcome = "synced"]
    /\ pc' = [pc EXCEPT ![p] = "finally"]
    /\ UNCHANGED <<power, sched, health, archive, now, ticks, lock, extern, manifest, disk, loc, prev, stats, observed>>

\* lines 377-380: the write raised after the open, the file stays empty
WriteFlushFail(p) ==
    /\ pc[p] = "writing"
    /\ run' = [run EXCEPT ![p].outcome = "synced"]
    /\ stats' = [stats EXCEPT !.other = TRUE]
    /\ pc' = [pc EXCEPT ![p] = "finally"]
    /\ UNCHANGED <<power, sched, health, archive, now, ticks, lock, extern, manifest, disk, playlist, loc, prev,
                   observed>>

\* lines 388-389: finally, SYNC_LOCK.unlink(missing_ok=True); the process ends
Release(p) ==
    /\ pc[p] = "finally"
    /\ lock' = NoLock
    /\ pc' = [pc EXCEPT ![p] = "idle"]
    /\ loc' = [loc EXCEPT ![p] = NoLocals]
    /\ stats' = [stats EXCEPT !.runs[p] = @ + 1,
                              !.cycles = IF run[p].outcome \in {"unchanged", "synced"}
                                         THEN @ + 1 ELSE @]
    /\ UNCHANGED <<power, sched, health, archive, now, ticks, extern, manifest, disk, playlist, run, prev, observed>>

----------------------------------------------------------------------------
(* The environment *)

\* the clock advances by a second or by the staleness threshold
Tick ==
    /\ ticks < MaxTicks
    /\ \E d \in {1, LOCK_STALE_SECONDS} : now' = now + d
    /\ ticks' = ticks + 1
    /\ UNCHANGED <<power, sched, health, archive, lock, extern, manifest, disk, playlist, pc, loc, run, prev,
                   stats, observed>>

\* the player opens the playlist path and reads the file
PlayerRead ==
    /\ playlist.exists
    /\ observed' = playlist
    /\ observed' # observed
    /\ UNCHANGED <<power, sched, health, archive, now, ticks, lock, extern, manifest, disk, playlist, pc, loc,
                   run, prev, stats>>

----------------------------------------------------------------------------
(* Inputs *)

PA == <<"campaigns", "a.mp4">>

PB == <<"b.mp4">>

\* a server path that ends in "/"
PC == <<"campaigns", "c.mp4", "">>

ManifestItems == {Item(PA), Item(PC), Item(NoFile)}

Manifests == UNION {[1..n -> ManifestItems] : n \in 0..MaxManifest}

\* files that may be in the media directory before the first run
InitNames == {"a.mp4", "x.bin"}

\* the playlist before the first run: none, or one an earlier run published
InitPlaylists ==
    {NoPlaylist} \cup
    {PlaylistFile(generate_playlist_content(m)) : m \in {<<>>, <<Item(PA)>>}}

ProbeOutcomes == {"ok", "nosuch", "perm"}

\* limit: the runs of sync() a process makes; runs: those it has ended;
\* cycles: runs that compared the target set; dlFails: failed downloads;
\* other: something else failed or a run was skipped
Stats(limit) ==
    [limit |-> limit, runs |-> [p \in Procs |-> 0], cycles |-> 0, dlFails |-> 0,
     other |-> FALSE]

\* the process of the sequential specifications
Main == 101

InitProcs(limit) ==
    /\ pc = [p \in Procs |-> "idle"]
    /\ loc = [p \in Procs |-> NoLocals]
    /\ run = [p \in Procs |-> NoRun]
    /\ prev = [p \in Procs |-> NoRun]
    /\ stats = Stats(limit)
    /\ ticks = 0

----------------------------------------------------------------------------
(* Power control (src/src/power_control.py): the schedule decision and the   *)
(* CEC commands of one run of main().  A time string "07:00:00" is the       *)
(* sequence of its ":"-separated numbers (<<7, 0, 0>>); a time of day is in  *)
(* seconds since midnight.                                                   *)

\* datetime.time(h, m, s), ordered as the seconds since midnight
TimeOfDay(h, m, s) == (h * 3600) + (m * 60) + s

\* turn_on_time or shut_down_time is missing, null or ""
NoTime == <<>>

\* parse_api_time without the range checks of strptime: any fields are a time
parse_api_time_unchecked(t_str) ==
    [ok |-> Len(t_str) \in {2, 3},
     time |-> IF Len(t_str) = 3 THEN TimeOfDay(t_str[1], t_str[2], t_str[3])
              ELSE IF Len(t_str) = 2 THEN TimeOfDay(t_str[1], t_str[2], 0)
              ELSE 0]

\* parse_api_time: "%H:%M:%S" if the string has two ":", else "%H:%M";
\* ok = FALSE is the ValueError of strptime
parse_api_time(t_str) ==
    LET has_seconds == Len(t_str) = 3
        fits == IF has_seconds
                THEN t_str[1] \in 0..23 /\ t_str[2] \in 0..59 /\ t_str[3] \in 0..59
                ELSE Len(t_str) = 2 /\ t_str[1] \in 0..23 /\ t_str[2] \in 0..59
    IN  IF fits
        THEN [ok |-> TRUE,
              time |-> TimeOfDay(t_str[1], t_str[2], IF has_seconds THEN t_str[3] ELSE 0)]
        ELSE [ok |-> FALSE, time |-> 0]

\* a rule of the schedule; is_active is "true", "false" or "absent"
Rule(is_active, day_of_week, turn_on_time, shut_down_time) ==
    [is_active |-> is_active, day_of_week |-> day_of_week,
     turn_on_time |-> turn_on_time, shut_down_time |-> shut_down_time]

\* the is_active test dropped: every rule counts as active
IsActiveIgnored(item) == TRUE

\* line 221: item.get("is_active", True)
IsActive(item) == item.is_active # "false"

\* the window test with the end of a same-day window excluded
InWindowHalfOpen(start_time, end_time, current_time) ==
    IF start_time <= end_time
    THEN start_time <= current_time /\ current_time < end_time
    ELSE start_time <= current_time \/ current_time <= end_time

\* the window test with an overnight window tested like a same-day one
InWindowNoWrap(start_time, end_time, current_time) ==
    start_time <= current_time /\ current_time <= end_time

\* lines 242-247: the window test
InWindow(start_time, end_time, current_time) ==
    IF start_time <= end_time
    THEN start_time <= current_time /\ current_time <= end_time
    ELSE start_time <= current_time \/ current_time <= end_time

\* the loop of lines 220-249 without the break: any parsable rule of the day
\* can turn the result on
RECURSIVE ScanRulesNoBreak(_, _, _)
ScanRulesNoBreak(items, current_day_int, current_time) ==
    IF items = <<>> THEN [rule_found |-> FALSE, should_be_on |-> FALSE]
    ELSE LET item == Head(items)
             rest == ScanRulesNoBreak(Tail(items), current_day_int, current_time)
             start == parse_api_time(item.turn_on_time)
             end == parse_api_time(item.shut_down_time)
         IN  IF ~IsActive(item) THEN rest
             ELSE IF item.day_of_week # current_day_int THEN rest
             ELSE IF item.turn_on_time = NoTime \/ item.shut_down_time = NoTime THEN rest
             ELSE IF ~start.ok \/ ~end.ok THEN rest
             ELSE [rule_found |-> TRUE,
                   should_be_on |-> \/ InWindow(start.time, end.time, current_time)
                                    \/ rest.should_be_on]

\* lines 217-249: the loop over the rules, up to the first rule that is
\* active, for the day and has parsable times
RECURSIVE ScanRules(_, _, _)
ScanRules(items, current_day_int, current_time) ==
    IF items = <<>> THEN [rule_found |-> FALSE, should_be_on |-> FALSE]
    ELSE LET item == Head(items)
             rest == ScanRules(Tail(items), current_day_int, current_time)
             start == parse_api_time(item.turn_on_time)
             end == parse_api_time(item.shut_down_time)
         IN  IF ~IsActive(item) THEN rest
             ELSE IF item.day_of_week # current_day_int THEN rest
             ELSE IF item.turn_on_time = NoTime \/ item.shut_down_time = NoTime THEN rest
             ELSE IF ~start.ok \/ ~end.ok THEN rest
             ELSE [rule_found |-> TRUE,
                   should_be_on |-> InWindow(start.time, end.time, current_time)]

\* decide_power_state with on as the answer for a document without rules
decide_power_state_default_on(schedule, at) ==
    IF schedule = JsonNull \/ schedule = JsonList(<<>>) THEN TRUE
    ELSE IF schedule.type # "list" THEN TRUE
    ELSE LET current_day_int == at.weekday + 1
             found == ScanRules(schedule.items, current_day_int, at.time)
         IN  IF ~found.rule_found THEN FALSE ELSE found.should_be_on

\* decide_power_state, at the weekday (Monday is 0) and time of datetime.now()
decide_power_state(schedule, at) ==
    IF schedule = JsonNull \/ schedule = JsonList(<<>>) THEN FALSE
    ELSE IF schedule.type # "list" THEN FALSE
    ELSE LET current_day_int == at.weekday + 1
             found == ScanRules(schedule.items, current_day_int, at.time)
         IN  IF ~found.rule_found THEN FALSE ELSE found.should_be_on

\* load_schedule: None (JsonNull) when the file is absent or does not load
load_schedule(file) ==
    IF ~file.exists THEN JsonNull
    ELSE IF ~file.json THEN JsonNull
    ELSE file.doc

\* a line of the output of cec-client: has it "power status", "standby", "on"
Line(power_status, standby, on) ==
    [power_status |-> power_status, standby |-> standby, on |-> on]

\* what cec-client does with an invocation
CecReply(raised, returncode, stdout) ==
    [raised |-> raised, returncode |-> returncode, stdout |-> stdout]

\* lines 113-125: the first line with a power status that names standby or on
RECURSIVE ParseStatus(_)
ParseStatus(stdout) ==
    IF stdout = <<>> THEN "unknown"
    ELSE LET lower == Head(stdout)
         IN  IF lower.power_status /\ lower.standby THEN "standby"
             ELSE IF lower.power_status /\ lower.on THEN "on"
             ELSE ParseStatus(Tail(stdout))

\* get_tv_power_state: "on", "standby", or "unknown" for None
get_tv_power_state(reply) ==
    IF reply.raised THEN "unknown"
    ELSE IF reply.returncode # 0 THEN "unknown"
    ELSE ParseStatus(reply.stdout)

\* the answers of cec-client to "pow 0" for a display in the given state
StatusReplies(state) ==
    {CecReply(TRUE, 0, <<>>),
     CecReply(FALSE, 1, <<>>),
     CecReply(FALSE, 0, <<Line(FALSE, FALSE, FALSE)>>),
     CecReply(FALSE, 0, <<Line(FALSE, FALSE, TRUE),
                          Line(TRUE, state = "standby", state = "on")>>)}

\* one invocation of cec-client with its input lines
Invocation(input) == [input |-> input]

NoPLocals == [schedule |-> JsonNull, should_be_on |-> FALSE, actual_state |-> "unknown"]

\* what is remembered of a run of main() once the next one starts; loaded is
\* false for a run that returned at line 271 and before the first run
PowerSummary ==
    [ended |-> ppc = "ended",
     loaded |-> ppc = "ended" /\ ploc.schedule # JsonNull,
     should_be_on |-> ploc.should_be_on,
     actual_state |-> ploc.actual_state,
     cec |-> cec]

\* no run of main() yet, of at most limit runs
PowerHistory(limit) ==
    [limit |-> limit, runs |-> 0,
     prev |-> [ended |-> FALSE, loaded |-> FALSE, should_be_on |-> FALSE,
               actual_state |-> "unknown", cec |-> <<>>]]

\* power control does not run
NoPower ==
    /\ schedule_file = NoScheduleFile
    /\ wall = [weekday |-> 0, time |-> 0]
    /\ tv = "standby"
    /\ ppc = "idle"
    /\ ploc = NoPLocals
    /\ cec = <<>>
    /\ phist = PowerHistory(0)

\* line 312: main() is entered
PowerStart ==
    /\ ppc \in {"idle", "ended"}
    /\ phist.runs < phist.limit
    /\ phist' = [phist EXCEPT !.runs = @ + 1, !.prev = PowerSummary]
    /\ ppc' = "main"
    /\ ploc' = NoPLocals
    /\ cec' = <<>>
    /\ UNCHANGED <<media, sched, health, archive, schedule_file, wall, tv>>

\* the return of line 271 after a status query
PowerNoScheduleQuery ==
    /\ ppc = "main"
    /\ load_schedule(schedule_file) = JsonNull
    /\ cec' = Append(cec, Invocation(<<"pow 0">>))
    /\ ppc' = "ended"
    /\ UNCHANGED <<media, sched, health, archive, phist, schedule_file, wall, tv, ploc>>

\* lines 268-271: load_schedule returned None, return
PowerNoSchedule ==
    /\ ppc = "main"
    /\ load_schedule(schedule_file) = JsonNull
    /\ ppc' = "ended"
    /\ UNCHANGED <<media, sched, health, archive, phist, schedule_file, wall, tv, ploc, cec>>

\* line 268: the schedule is loaded
PowerLoad ==
    /\ ppc = "main"
    /\ load_schedule(schedule_file) # JsonNull
    /\ ploc' = [ploc EXCEPT !.schedule = load_schedule(schedule_file)]
    /\ ppc' = "loaded"
    /\ UNCHANGED <<media, sched, health, archive, phist, schedule_file, wall, tv, cec>>

\* line 272: should_be_on = decide_power_state(schedule)
PowerDecide ==
    /\ ppc = "loaded"
    /\ ploc' = [ploc EXCEPT !.should_be_on = decide_power_state(ploc.schedule, wall)]
    /\ ppc' = "decided"
    /\ UNCHANGED <<media, sched, health, archive, phist, schedule_file, wall, tv, cec>>

\* line 275: actual_state = get_tv_power_state()
PowerQuery ==
    /\ ppc = "decided"
    /\ \E reply \in StatusReplies(tv) :
          ploc' = [ploc EXCEPT !.actual_state = get_tv_power_state(reply)]
    /\ cec' = Append(cec, Invocation(<<"pow 0">>))
    /\ ppc' = "queried"
    /\ UNCHANGED <<media, sched, health, archive, phist, schedule_file, wall, tv>>

\* set_tv_power("on") in place of wake_tv_aggressive
PowerWakePlain ==
    /\ ppc = "queried"
    /\ ploc.should_be_on /\ ploc.actual_state = "standby"
    /\ cec' = Append(cec, Invocation(<<"on 0">>))
    /\ tv' \in {tv, "on"}
    /\ ppc' = "ended"
    /\ UNCHANGED <<media, sched, health, archive, phist, schedule_file, wall, ploc>>

\* lines 282-287: wake_tv_aggressive; the display may not follow
PowerWake ==
    /\ ppc = "queried"
    /\ ploc.should_be_on /\ ploc.actual_state = "standby"
    /\ cec' = Append(cec, Invocation(<<"on 0", "tx 10:04", "as">>))
    /\ tv' \in {tv, "on"}
    /\ ppc' = "ended"
    /\ UNCHANGED <<media, sched, health, archive, phist, schedule_file, wall, ploc>>

\* set_tv_power("on") although the display reports on
PowerAlreadyOnResend ==
    /\ ppc = "queried"
    /\ ploc.should_be_on /\ ploc.actual_state = "on"
    /\ cec' = Append(cec, Invocation(<<"on 0">>))
    /\ ppc' = "ended"
    /\ UNCHANGED <<media, sched, health, archive, phist, schedule_file, wall, tv, ploc>>

\* lines 288-291: the display is on already
PowerAlreadyOn ==
    /\ ppc = "queried"
    /\ ploc.should_be_on /\ ploc.actual_state = "on"
    /\ ppc' = "ended"
    /\ UNCHANGED <<media, sched, health, archive, phist, schedule_file, wall, tv, ploc, cec>>

\* lines 292-296: set_tv_power("on")
PowerOn ==
    /\ ppc = "queried"
    /\ ploc.should_be_on /\ ploc.actual_state = "unknown"
    /\ cec' = Append(cec, Invocation(<<"on 0">>))
    /\ tv' \in {tv, "on"}
    /\ ppc' = "ended"
    /\ UNCHANGED <<media, sched, health, archive, phist, schedule_file, wall, ploc>>

\* lines 297-302: set_tv_power("off")
PowerOff ==
    /\ ppc = "queried"
    /\ ~ploc.should_be_on /\ ploc.actual_state = "on"
    /\ cec' = Append(cec, Invocation(<<"standby 0">>))
    /\ tv' \in {tv, "standby"}
    /\ ppc' = "ended"
    /\ UNCHANGED <<media, sched, health, archive, phist, schedule_file, wall, ploc>>

\* lines 303-307: off is wanted and the display is not reported on
PowerNoAction ==
    /\ ppc = "queried"
    /\ ~ploc.should_be_on /\ ploc.actual_state # "on"
    /\ ppc' = "ended"
    /\ UNCHANGED <<media, sched, health, archive, phist, schedule_file, wall, tv, ploc, cec>>

\* the display is switched by hand (remote control, power button)
ManualSwitch ==
    /\ tv' \in {"on", "standby"}
    /\ tv' # tv
    /\ UNCHANGED <<media, sched, health, archive, phist, schedule_file, wall, ppc, ploc, cec>>

----------------------------------------------------------------------------
(* Schedule sync (src/src/scheduler_sync.py): one run of main() fetches the  *)
(* device data from the backend and caches its schedules in SCHEDULE_FILE.   *)

\* the body of the backend's answer: an object with or without the key
\* "schedules", or JSON that is not an object
DeviceData(has_schedules, schedules) ==
    [type |-> "object", has_schedules |-> has_schedules, schedules |-> schedules]

NotDeviceData == [type |-> "list", has_schedules |-> FALSE, schedules |-> JsonNull]

\* fetch_schedule without the check of the status at line 65
fetch_schedule_any_status(resp, device_data) ==
    IF ~resp.api_url THEN Raised("HOST_URL is not configured")
    ELSE IF ~resp.reachable THEN Raised("Error fetching device data")
    ELSE IF resp.status >= 400 THEN Raised("Error fetching device data")
    ELSE IF ~resp.json THEN Raised("Failed to decode API response JSON")
    ELSE IF device_data.type # "object" THEN Raised("AttributeError")
    ELSE IF ~device_data.has_schedules THEN Returns(JsonList(<<>>))
    ELSE Returns(device_data.schedules)

\* fetch_schedule (lines 35-79) on a response and the body it carries; every
\* Raised ends the process with status 1 (sys.exit(1), or the traceback of
\* the AttributeError of line 71 for a body that is not an object); api_url is
\* HOST_URL here
fetch_schedule(resp, device_data) ==
    IF ~resp.api_url THEN Raised("HOST_URL is not configured")
    ELSE IF ~resp.reachable THEN Raised("Error fetching device data")
    ELSE IF resp.status >= 400 THEN Raised("Error fetching device data")
    ELSE IF resp.status # 200 THEN Raised("API returned status")
    ELSE IF ~resp.json THEN Raised("Failed to decode API response JSON")
    ELSE IF device_data.type # "object" THEN Raised("AttributeError")
    ELSE IF ~device_data.has_schedules THEN Returns(JsonList(<<>>))
    ELSE Returns(device_data.schedules)

\* line 96: if schedule_data
Truthy(doc) == doc # JsonNull /\ doc # JsonList(<<>>)

NoSLocals == [schedule_data |-> JsonNull]

\* history of a run of the schedule sync that has not done anything yet
NoSchedRun(limit) ==
    [limit |-> limit, runs |-> 0,
     file0 |-> NoScheduleFile,  \* the schedule file when main() was entered
     response |-> {},           \* what the backend answered to the fetch
     fetched |-> FALSE,         \* fetch_schedule returned
     returned |-> JsonNull,     \*   this
     saves |-> 0,               \* calls of save_schedule
     saved |-> FALSE,           \* json.dump completed
     exit |-> 0]

\* the schedule sync does not run
NoSched ==
    /\ spc = "idle"
    /\ sloc = NoSLocals
    /\ srun = NoSchedRun(0)

\* line 103: main() is entered
SchedStart ==
    /\ spc \in {"idle", "ended"}
    /\ srun.runs < srun.limit
    /\ spc' = "main"
    /\ sloc' = NoSLocals
    /\ srun' = [NoSchedRun(srun.limit) EXCEPT !.runs = srun.runs + 1,
                                              !.file0 = schedule_file]
    /\ UNCHANGED <<media, health, archive, power>>

\* line 95: fetch_schedule returned the schedules of the body
SchedFetch(resp, device_data) ==
    /\ spc = "main"
    /\ ~fetch_schedule(resp, device_data).raised
    /\ sloc' = [sloc EXCEPT !.schedule_data = fetch_schedule(resp, device_data).value]
    /\ srun' = [srun EXCEPT !.fetched = TRUE, !.response = {resp},
                            !.returned = fetch_schedule(resp, device_data).value]
    /\ spc' = "fetched"
    /\ UNCHANGED <<media, health, archive, power>>

\* line 95: fetch_schedule ended the process
SchedFetchFail(resp, device_data) ==
    /\ spc = "main"
    /\ fetch_schedule(resp, device_data).raised
    /\ srun' = [srun EXCEPT !.response = {resp}, !.exit = 1]
    /\ spc' = "ended"
    /\ UNCHANGED <<media, health, archive, power, sloc>>

\* lines 96-99: nothing truthy was returned, the file is left alone
SchedNoData ==
    /\ spc = "fetched"
    /\ ~Truthy(sloc.schedule_data)
    /\ spc' = "ended"
    /\ UNCHANGED <<media, health, archive, power, sloc, srun>>

\* line 84: MEDIA_DIR.mkdir raised (outside the try of save_schedule)
SchedMkdirFail ==
    /\ spc = "fetched"
    /\ Truthy(sloc.schedule_data)
    /\ srun' = [srun EXCEPT !.saves = @ + 1, !.exit = 1]
    /\ spc' = "ended"
    /\ UNCHANGED <<media, health, archive, power, sloc>>

\* lines 84-88: save_schedule wrote the document
SchedSave ==
    /\ spc = "fetched"
    /\ Truthy(sloc.schedule_data)
    /\ schedule_file' = ScheduleFile(sloc.schedule_data)
    /\ srun' = [srun EXCEPT !.saves = @ + 1, !.saved = TRUE]
    /\ spc' = "ended"
    /\ UNCHANGED <<media, health, archive, wall, tv, ppc, ploc, cec, phist, sloc>>

\* lines 85-90: OSError in open("w") (the file is as before) or in the write
\* (the file is truncated or partial); it is printed and main() returns
SchedSaveFail ==
    /\ spc = "fetched"
    /\ Truthy(sloc.schedule_data)
    /\ schedule_file' \in {schedule_file, BadScheduleFile}
    /\ srun' = [srun EXCEPT !.saves = @ + 1]
    /\ spc' = "ended"
    /\ UNCHANGED <<media, health, archive, wall, tv, ppc, ploc, cec, phist, sloc>>

----------------------------------------------------------------------------
(* Health check (src/src/health_check.py): one ping per run *)

\* what the network does with the ping: the status the server answers with,
\* or a fault ("connection": no answer, "other": any other exception)
Ping(fault, status) == [fault |-> fault, status |-> status]

Pings ==
    {Ping("none", 200), Ping("none", 204), Ping("none", 404), Ping("none", 500),
     Ping("connection", 0), Ping("other", 0)}

\* urlopen: raises HTTPError for a status of 400 and above
UrlOpen(ping) ==
    IF ping.fault = "connection" THEN "URLError"
    ELSE IF ping.fault = "other" THEN "Exception"
    ELSE IF ping.status >= 400 THEN "HTTPError"
    ELSE "response"

\* health_check with an exit for every answer but 200
health_check_strict(url, ping) ==
    IF ~url THEN [requests |-> 0, exit |-> 0]
    ELSE IF UrlOpen(ping) = "response" /\ ping.status = 200 THEN [requests |-> 1, exit |-> 0]
    ELSE [requests |-> 1, exit |-> 1]

\* health_check (lines 17-41): the requests it sends and the exit status (0
\* when it returns); url is whether HEALTHCHECK_URL is configured
health_check(url, ping) ==
    IF ~url THEN [requests |-> 0, exit |-> 0]
    ELSE IF UrlOpen(ping) = "response" THEN [requests |-> 1, exit |-> 0]
    ELSE [requests |-> 1, exit |-> 1]

\* history of the health check: the configuration, the exit statuses of the
\* runs before, and the ping, the requests and the exit status of the current
\* (or last) run
NoHealthRun(url) ==
    [url |-> url, log |-> <<>>, ping |-> Ping("none", 0), requests |-> 0, exit |-> 0]

\* the health check does not run
NoHealth ==
    /\ hpc = "idle"
    /\ hrun = NoHealthRun(FALSE)

\* line 45: health_check() is entered
HealthStart ==
    /\ hpc \in {"idle", "ended"}
    /\ Len(hrun.log) < MaxPings
    /\ hpc' = "main"
    /\ hrun' = [hrun EXCEPT !.log = IF hpc = "ended" THEN Append(@, hrun.exit) ELSE @,
                            !.ping = Ping("none", 0), !.requests = 0, !.exit = 0]
    /\ UNCHANGED <<media, power, sched, archive>>

\* lines 19-23: no URL, return
HealthSkip ==
    /\ hpc = "main"
    /\ ~hrun.url
    /\ hrun' = [hrun EXCEPT !.requests = health_check(FALSE, hrun.ping).requests,
                            !.exit = health_check(FALSE, hrun.ping).exit]
    /\ hpc' = "ended"
    /\ UNCHANGED <<media, power, sched, archive>>

\* lines 25-32: the ping was answered, return
HealthResponse(ping) ==
    /\ hpc = "main"
    /\ hrun.url
    /\ health_check(TRUE, ping).exit = 0
    /\ hrun' = [hrun EXCEPT !.ping = ping,
                            !.requests = health_check(TRUE, ping).requests,
                            !.exit = 0]
    /\ hpc' = "ended"
    /\ UNCHANGED <<media, power, sched, archive>>

\* lines 33-41: the request raised, sys.exit(1)
HealthExit(ping) ==
    /\ hpc = "main"
    /\ hrun.url
    /\ health_check(TRUE, ping).exit # 0
    /\ hrun' = [hrun EXCEPT !.ping = ping,
                            !.requests = health_check(TRUE, ping).requests,
                            !.exit = health_check(TRUE, ping).exit]
    /\ hpc' = "ended"
    /\ UNCHANGED <<media, power, sched, archive>>

----------------------------------------------------------------------------
(* The archive-based sync (src/media_sync.py): one ZIP archive is          *)
(* downloaded, extracted to STAGING_DIR, validated and swapped into        *)
(* MEDIA_DIR.  A text line is the sequence of its characters.              *)

\* configured number of download attempts
MAX_RETRIES == MaxRetries

\* check_disk_space(required_mb=500)
REQUIRED_MB == 500

\* a regular file holding text, and one holding bytes that do not decode
TextFile(lines) == [text |-> TRUE, lines |-> lines, tag |-> "text"]

BinFile(tag) == [text |-> FALSE, lines |-> <<>>, tag |-> tag]

\* a directory with no entry
EmptyFiles == [n \in {} |-> BinFile("none")]

\* a directory that does not exist, and one that holds the given files
NoDir == [exists |-> FALSE, files |-> EmptyFiles]

Dir(files) == [exists |-> TRUE, files |-> files]

\* the files but the one named n
Without(files, n) == [m \in DOMAIN files \ {n} |-> files[m]]

\* the names glob("*.m3u") matches, of the names of the model
IsM3u(n) == n \in {"playlist.m3u", "list.m3u"}

\* str.strip(): leading and trailing blanks dropped
RECURSIVE lstrip(_)
lstrip(s) == IF s # <<>> /\ s[1] = " " THEN lstrip(Tail(s)) ELSE s

RECURSIVE rstrip(_)
rstrip(s) == IF s # <<>> /\ s[Len(s)] = " " THEN rstrip(SubSeq(s, 1, Len(s) - 1)) ELSE s

strip(s) == rstrip(lstrip(s))

\* str.startswith(c) for a single character c
startswith(s, c) == s # <<>> /\ s[1] = c

\* check_playlist_exists with the content check left out
check_playlist_any(files) ==
    {n \in DOMAIN files : IsM3u(n)} # {}

\* lines 148-163: some *.m3u file of the directory can be read as text and
\* has a line that is not blank and does not start with "#"
check_playlist_exists(files) ==
    LET playlists == {n \in DOMAIN files : IsM3u(n)}
    IN  IF playlists = {} THEN FALSE
        ELSE \E n \in playlists :
                /\ files[n].text
                /\ \E i \in DOMAIN files[n].lines :
                      /\ strip(files[n].lines[i]) # <<>>
                      /\ ~startswith(files[n].lines[i], "#")

\* shutil.rmtree removes the entries of a directory one after the other and
\* the directory last: the directories one removal further
RmtreeSteps(dir) ==
    IF DOMAIN dir.files # {}
    THEN {Dir(Without(dir.files, n)) : n \in DOMAIN dir.files}
    ELSE {NoDir}

\* the run of the archive sync: the configuration (DROPBOX_URL, free disk
\* space), the directories and the lock as the run found them, the failed
\* download attempts, the archive downloaded, why the run failed and the
\* exit status (-1: the process has not ended)
NoArchiveRun(url, free_mb, media0, staging0, lock0) ==
    [url |-> url, free_mb |-> free_mb, media0 |-> media0, staging0 |-> staging0,
     lock0 |-> lock0, failures |-> 0, zip |-> EmptyFiles, extracted |-> FALSE,
     cause |-> "none", skipped |-> FALSE, exit |-> -1]

\* the archive sync does not run
NoArchive ==
    /\ apc = "idle"
    /\ media_dir = NoDir
    /\ staging_dir = NoDir
    /\ sync_lock = FALSE
    /\ arun = NoArchiveRun("valid", REQUIRED_MB, NoDir, NoDir, FALSE)
    /\ seen = NoDir

\* lines 173-177: the lock file exists, return
ArchiveSkip ==
    /\ apc = "idle"
    /\ sync_lock
    /\ apc' = "done"
    /\ arun' = [arun EXCEPT !.skipped = TRUE, !.exit = 0]
    /\ UNCHANGED <<media, power, sched, health, media_dir, staging_dir, sync_lock, seen>>

\* line 174: the lock file is created
ArchiveLock ==
    /\ apc = "idle"
    /\ ~sync_lock
    /\ sync_lock' = TRUE
    /\ apc' = "try"
    /\ UNCHANGED <<media, power, sched, health, media_dir, staging_dir, arun, seen>>

\* lines 185-186, 232-235: DROPBOX_URL is empty, sys.exit(1)
ArchiveNoUrl ==
    /\ apc = "try"
    /\ arun.url = "empty"
    /\ arun' = [arun EXCEPT !.cause = "url", !.exit = 1]
    /\ apc' = "finally"
    /\ UNCHANGED <<media, power, sched, health, media_dir, staging_dir, sync_lock, seen>>

\* lines 190, 56-61, 232-235: too little free space, sys.exit(1)
ArchiveDiskFull ==
    /\ apc = "try"
    /\ arun.url # "empty"
    /\ arun.free_mb < REQUIRED_MB
    /\ arun' = [arun EXCEPT !.cause = "disk", !.exit = 1]
    /\ apc' = "finally"
    /\ UNCHANGED <<media, power, sched, health, media_dir, staging_dir, sync_lock, seen>>

\* lines 190, 56-62: enough free space
ArchiveDiskOk ==
    /\ apc = "try"
    /\ arun.url # "empty"
    /\ ~(arun.free_mb < REQUIRED_MB)
    /\ apc' = "clean"
    /\ UNCHANGED <<media, power, sched, health, media_dir, staging_dir, sync_lock, arun, seen>>

\* lines 193-194: one removal of rmtree(STAGING_DIR)
ArchiveCleanStaging ==
    /\ apc = "clean"
    /\ staging_dir.exists
    /\ staging_dir' \in RmtreeSteps(staging_dir)
    /\ UNCHANGED <<media, power, sched, health, apc, media_dir, sync_lock, arun, seen>>

\* line 195: STAGING_DIR.mkdir
ArchiveMkdir ==
    /\ apc = "clean"
    /\ ~staging_dir.exists
    /\ staging_dir' = Dir(EmptyFiles)
    /\ apc' = "download"
    /\ UNCHANGED <<media, power, sched, health, media_dir, sync_lock, arun, seen>>

\* lines 92-130: an attempt downloads a valid ZIP archive
ArchiveDownloadOk(zip) ==
    /\ apc = "download"
    /\ arun.url = "valid"
    /\ arun' = [arun EXCEPT !.zip = zip]
    /\ apc' = "extract"
    /\ UNCHANGED <<media, power, sched, health, media_dir, staging_dir, sync_lock, seen>>

\* lines 131-143: an attempt but the last fails, sleep and try again
ArchiveDownloadRetry ==
    /\ apc = "download"
    /\ arun.url = "valid"
    /\ arun.failures + 1 < MAX_RETRIES
    /\ arun' = [arun EXCEPT !.failures = @ + 1]
    /\ UNCHANGED <<media, power, sched, health, apc, media_dir, staging_dir, sync_lock, seen>>

\* lines 131-145, 232-235: the last attempt fails, sys.exit(1)
ArchiveDownloadFail ==
    /\ apc = "download"
    /\ arun.url = "valid"
    /\ arun.failures + 1 = MAX_RETRIES
    /\ arun' = [arun EXCEPT !.failures = @ + 1, !.cause = "download", !.exit = 1]
    /\ apc' = "finally"
    /\ UNCHANGED <<media, power, sched, health, media_dir, staging_dir, sync_lock, seen>>

\* lines 137-139, 232-235: "unknown url type" is raised again at once
ArchiveUnknownUrl ==
    /\ apc = "download"
    /\ arun.url = "unknown"
    /\ arun' = [arun EXCEPT !.failures = @ + 1, !.cause = "url_type", !.exit = 1]
    /\ apc' = "finally"
    /\ UNCHANGED <<media, power, sched, health, media_dir, staging_dir, sync_lock, seen>>

\* lines 201-204: the archive is extracted into STAGING_DIR
ArchiveExtract ==
    /\ apc = "extract"
    /\ staging_dir' = Dir(arun.zip)
    /\ arun' = [arun EXCEPT !.extracted = TRUE]
    /\ apc' = "check"
    /\ UNCHANGED <<media, power, sched, health, media_dir, sync_lock, seen>>

\* lines 207-208, 232-235: no valid playlist, sys.exit(1)
ArchiveNoPlaylist ==
    /\ apc = "check"
    /\ ~check_playlist_exists(staging_dir.files)
    /\ arun' = [arun EXCEPT !.cause = "playlist", !.exit = 1]
    /\ apc' = "finally"
    /\ UNCHANGED <<media, power, sched, health, media_dir, staging_dir, sync_lock, seen>>

\* line 207: the staged content has a valid playlist
ArchivePlaylistOk ==
    /\ apc = "check"
    /\ check_playlist_exists(staging_dir.files)
    /\ apc' = "swap"
    /\ UNCHANGED <<media, power, sched, health, media_dir, staging_dir, sync_lock, arun, seen>>

\* lines 213-214: one removal of rmtree(MEDIA_DIR)
ArchiveRmtreeMedia ==
    /\ apc = "swap"
    /\ media_dir.exists
    /\ media_dir' \in RmtreeSteps(media_dir)
    /\ UNCHANGED <<media, power, sched, health, apc, staging_dir, sync_lock, arun, seen>>

\* lines 215-230: STAGING_DIR is renamed to MEDIA_DIR, sync() returns
ArchiveRename ==
    /\ apc = "swap"
    /\ ~media_dir.exists
    /\ media_dir' = staging_dir
    /\ staging_dir' = NoDir
    /\ arun' = [arun EXCEPT !.exit = 0]
    /\ apc' = "finally"
    /\ UNCHANGED <<media, power, sched, health, sync_lock, seen>>

\* lines 215, 232-235: the rename raises OSError, sys.exit(1)
ArchiveRenameFail ==
    /\ apc = "swap"
    /\ ~media_dir.exists
    /\ arun' = [arun EXCEPT !.cause = "rename", !.exit = 1]
    /\ apc' = "finally"
    /\ UNCHANGED <<media, power, sched, health, media_dir, staging_dir, sync_lock, seen>>

\* line 238: the lock file is removed
ArchiveUnlink ==
    /\ apc = "finally"
    /\ sync_lock' = FALSE
    /\ apc' = "cleanup"
    /\ UNCHANGED <<media, power, sched, health, media_dir, staging_dir, arun, seen>>

\* lines 240-241: one removal of rmtree(STAGING_DIR)
ArchiveCleanup ==
    /\ apc = "cleanup"
    /\ staging_dir.exists
    /\ staging_dir' \in RmtreeSteps(staging_dir)
    /\ UNCHANGED <<media, power, sched, health, apc, media_dir, sync_lock, arun, seen>>

\* line 240: no staging directory is left, the process ends
ArchiveDone ==
    /\ apc = "cleanup"
    /\ ~staging_dir.exists
    /\ apc' = "done"
    /\ UNCHANGED <<media, power, sched, health, media_dir, staging_dir, sync_lock, arun, seen>>

\* the player looks at the media directory (src/main.py, play)
PlayerLook ==
    /\ seen # media_dir
    /\ seen' = media_dir
    /\ UNCHANGED <<media, power, sched, health, apc, media_dir, staging_dir, sync_lock, arun>>

----------------------------------------------------------------------------
(* Inputs of power control *)

\* the rules a schedule is made of: same-day and overnight windows on Monday
\* and Sunday, times with and without seconds, and rules that are skipped
SameDay == <<<<7, 0, 0>>, <<23, 0, 0>>>>

Overnight == <<<<23, 0>>, <<6, 0>>>>

Rules ==
    {Rule(a, d, w[1], w[2]) : a \in {"true", "false"}, d \in {1, 7},
                              w \in {SameDay, Overnight}}
    \cup {Rule("absent", 1, <<12, 0, 0>>, <<12, 0, 0>>),
          Rule("true", 1, <<24, 0, 0>>, <<23, 0, 0>>),
          Rule("true", 1, <<7, 0, 0>>, NoTime)}

Schedules == UNION {[1..n -> Rules] : n \in 0..MaxRules}

\* the times of day at which main() runs
WallTimes ==
    {TimeOfDay(1, 0, 0), TimeOfDay(6, 0, 0), TimeOfDay(6, 0, 1), TimeOfDay(7, 0, 0),
     TimeOfDay(12, 0, 0), TimeOfDay(23, 0, 0), TimeOfDay(23, 30, 0)}

\* Monday and Sunday
WallDays == {0, 6}

InitPower ==
    /\ InitProcs(0)
    /\ now = 100
    /\ lock = NoLock
    /\ extern = [e \in ExtPids |-> "nosuch"]
    /\ manifest = <<>>
    /\ disk = {}
    /\ playlist = NoPlaylist
    /\ observed = NoPlaylist
    /\ schedule_file \in {NoScheduleFile, BadScheduleFile, ScheduleFile(JsonNull),
                          ScheduleFile(JsonObject)}
                         \cup {ScheduleFile(JsonList(r)) : r \in Schedules}
    /\ wall \in [weekday : WallDays, time : WallTimes]
    /\ tv \in {"on", "standby"}
    /\ ppc = "idle"
    /\ ploc = NoPLocals
    /\ cec = <<>>
    /\ phist = PowerHistory(1)
    /\ NoSched
    /\ NoHealth
    /\ NoArchive

NextPower ==
    \/ PowerStart
    \/ PowerNoSchedule
    \/ PowerLoad
    \/ PowerDecide
    \/ PowerQuery
    \/ PowerWake
    \/ PowerAlreadyOn
    \/ PowerOn
    \/ PowerOff
    \/ PowerNoAction

SpecPower == InitPower /\ [][NextPower]_vars

----------------------------------------------------------------------------
(* Runs of power control one after the other on a fixed schedule, the       *)
(* display switched by hand in between                                      *)

InitPowerRuns ==
    /\ InitProcs(0)
    /\ now = 100
    /\ lock = NoLock
    /\ extern = [e \in ExtPids |-> "nosuch"]
    /\ manifest = <<>>
    /\ disk = {}
    /\ playlist = NoPlaylist
    /\ observed = NoPlaylist
    /\ schedule_file \in {NoScheduleFile, ScheduleFile(JsonList(<<>>))}
                         \cup {ScheduleFile(JsonList(<<Rule("true", 1, w[1], w[2])>>)) :
                                  w \in {SameDay, Overnight}}
    /\ wall \in [weekday : {0}, time : {TimeOfDay(6, 0, 1), TimeOfDay(12, 0, 0)}]
    /\ tv \in {"on", "standby"}
    /\ ppc = "idle"
    /\ ploc = NoPLocals
    /\ cec = <<>>
    /\ phist = PowerHistory(MaxPowerRuns)
    /\ NoSched
    /\ NoHealth
    /\ NoArchive

\* line 213: datetime.now() is later in the day at the next run
WallAdvance ==
    /\ ppc \in {"idle", "ended"}
    /\ \E t \in WallTimes : t > wall.time /\ wall' = [wall EXCEPT !.time = t]
    /\ UNCHANGED <<media, sched, health, archive, phist, schedule_file, tv, ppc, ploc, cec>>

NextPowerRuns ==
    \/ NextPower
    \/ ManualSwitch
    \/ WallAdvance

SpecPowerRuns == InitPowerRuns /\ [][NextPowerRuns]_vars

----------------------------------------------------------------------------
(* One run of the schedule sync on any cached schedule *)

\* the rules the backend sends
BackendRules == {Rule("true", 1, SameDay[1], SameDay[2]),
                 Rule("false", 7, Overnight[1], Overnight[2])}

\* the bodies the backend answers with
DeviceBodies ==
    {DeviceData(TRUE, JsonList(r)) : r \in UNION {[1..n -> BackendRules] : n \in 0..MaxRules}}
    \cup {DeviceData(TRUE, JsonNull), DeviceData(TRUE, JsonObject),
          DeviceData(FALSE, JsonNull), NotDeviceData}

InitSched ==
    /\ InitProcs(0)
    /\ NoHealth
    /\ NoArchive
    /\ schedule_file \in {NoScheduleFile, BadScheduleFile}
                         \cup {ScheduleFile(JsonList(r)) :
                                  r \in UNION {[1..n -> BackendRules] : n \in 0..MaxRules}}
    /\ wall = [weekday |-> 0, time |-> 0]
    /\ tv = "standby"
    /\ ppc = "idle"
    /\ ploc = NoPLocals
    /\ cec = <<>>
    /\ phist = PowerHistory(0)
    /\ now = 100
    /\ lock = NoLock
    /\ extern = [e \in ExtPids |-> "nosuch"]
    /\ manifest = <<>>
    /\ disk = {}
    /\ playlist = NoPlaylist
    /\ observed = NoPlaylist
    /\ spc = "idle"
    /\ sloc = NoSLocals
    /\ srun = NoSchedRun(1)

NextSched ==
    \/ SchedStart
    \/ \E resp \in Responses, device_data \in DeviceBodies : SchedFetch(resp, device_data)
    \/ \E resp \in Responses, device_data \in DeviceBodies : SchedFetchFail(resp, device_data)
    \/ SchedNoData
    \/ SchedMkdirFail
    \/ SchedSave
    \/ SchedSaveFail

SpecSched == InitSched /\ [][NextSched]_vars

----------------------------------------------------------------------------
(* Runs of the health check one after the other *)

InitHealth ==
    /\ InitProcs(0)
    /\ NoPower
    /\ NoSched
    /\ now = 100
    /\ lock = NoLock
    /\ extern = [e \in ExtPids |-> "nosuch"]
    /\ manifest = <<>>
    /\ disk = {}
    /\ playlist = NoPlaylist
    /\ observed = NoPlaylist
    /\ hpc = "idle"
    /\ hrun \in {NoHealthRun(url) : url \in BOOLEAN}
    /\ NoArchive

NextHealth ==
    \/ HealthStart
    \/ HealthSkip
    \/ \E ping \in Pings : HealthResponse(ping)
    \/ \E ping \in Pings : HealthExit(ping)

SpecHealth == InitHealth /\ [][NextHealth]_vars

----------------------------------------------------------------------------
(* One run of the archive-based sync, the player looking on *)

\* text lines: the header comment, a blank line, an entry
HeaderText == <<"#", "E">>

BlankText == <<" ">>

EntryText == <<"a">>

\* the media directory of the run before
PreviousMedia ==
    ("playlist.m3u" :> TextFile(<<EntryText>>)) @@ ("old.mp4" :> BinFile("old"))

\* what is left in STAGING_DIR of a run that was killed
LeftOver == ("a.mp4" :> BinFile("part"))

\* the archives the server hands out: with a playlist that has an entry,
\* with a playlist of comments and blank lines, with a playlist that is not
\* text, and without a playlist
Archives ==
    { ("playlist.m3u" :> TextFile(<<HeaderText, EntryText>>)) @@ ("a.mp4" :> BinFile("new")),
      ("playlist.m3u" :> TextFile(<<HeaderText, BlankText>>)) @@ ("a.mp4" :> BinFile("new")),
      ("playlist.m3u" :> BinFile("new")) @@ ("a.mp4" :> BinFile("new")),
      ("a.mp4" :> BinFile("new")) }

InitArchive ==
    /\ InitProcs(0)
    /\ NoPower
    /\ NoSched
    /\ NoHealth
    /\ now = 100
    /\ lock = NoLock
    /\ extern = [e \in ExtPids |-> "nosuch"]
    /\ manifest = <<>>
    /\ disk = {}
    /\ playlist = NoPlaylist
    /\ observed = NoPlaylist
    /\ apc = "idle"
    /\ media_dir \in {NoDir, Dir(PreviousMedia)}
    /\ staging_dir \in {NoDir, Dir(LeftOver)}
    /\ sync_lock \in BOOLEAN
    /\ arun \in {NoArchiveRun(url, free_mb, media_dir, staging_dir, sync_lock) :
                    url \in {"empty", "valid", "unknown"},
                    free_mb \in {REQUIRED_MB - 1, REQUIRED_MB}}
    /\ seen = media_dir

NextArchive ==
    \/ ArchiveSkip
    \/ ArchiveLock
    \/ ArchiveNoUrl
    \/ ArchiveDiskFull
    \/ ArchiveDiskOk
    \/ ArchiveCleanStaging
    \/ ArchiveMkdir
    \/ \E zip \in Archives : ArchiveDownloadOk(zip)
    \/ ArchiveDownloadRetry
    \/ ArchiveDownloadFail
    \/ ArchiveUnknownUrl
    \/ ArchiveExtract
    \/ ArchiveNoPlaylist
    \/ ArchivePlaylistOk
    \/ ArchiveRmtreeMedia
    \/ ArchiveRename
    \/ ArchiveRenameFail
    \/ ArchiveUnlink
    \/ ArchiveCleanup
    \/ ArchiveDone
    \/ PlayerLook

SpecArchive == InitArchive /\ [][NextArchive]_vars

----------------------------------------------------------------------------
(* Sequential runs of sync() on one device, the manifest held fixed *)

\* no lock file, or one left by another program that runs or is gone
InitOwner ==
    /\ now = 100
    /\ extern \in [ExtPids -> {"ok", "nosuch"}]
    /\ \/ lock = NoLock /\ \A e \in ExtPids : extern[e] = "nosuch"
       \/ lock \in {LockRecord(e, 50) : e \in ExtPids}

Init ==
    /\ InitProcs(MaxCycles)
    /\ NoPower
    /\ NoSched
    /\ NoHealth
    /\ NoArchive
    /\ InitOwner
    /\ manifest \in Manifests
    /\ disk \in SUBSET InitNames
    /\ playlist \in InitPlaylists
    /\ observed = NoPlaylist

SyncStep(p) ==
    \/ Start(p)
    \/ LockExists(p)
    \/ LockCreate(p)
    \/ LockRead(p)
    \/ LockRefuse(p)
    \/ LockDecide(p)
    \/ LockUnlink(p)
    \/ LockWrite(p)
    \/ Fetch(p)
    \/ FetchFail(p)
    \/ CompareSame(p)
    \/ CompareDiff(p)
    \/ ScanDisk(p)
    \/ ScanFail(p)
    \/ DownloadOk(p)
    \/ DownloadFail(p)
    \/ DownloadCleanupFail(p)
    \/ DeleteOk(p)
    \/ DeleteFail(p)
    \/ WriteOpen(p)
    \/ WriteOpenFail(p)
    \/ WriteFlush(p)
    \/ WriteFlushFail(p)
    \/ Release(p)

Next == SyncStep(Main)

Spec == Init /\ [][Next]_vars

\* the same with a manifest of at most one item; a sync process keeps
\* running until it ends
InitFair == Init /\ Len(manifest) <= 1

FairSpec == InitFair /\ [][Next]_vars /\ WF_vars(Next)

----------------------------------------------------------------------------
(* One run of sync() from any state of the device, the manifest with paths  *)
(* that share a basename                                                    *)

\* a second server path with the basename of PA
PA2 == <<"other", "a.mp4">>

RunItems == ManifestItems \cup {Item(PB), Item(PA2)}

InitRun ==
    /\ InitProcs(1)
    /\ NoPower
    /\ NoSched
    /\ NoHealth
    /\ NoArchive
    /\ InitOwner
    /\ manifest \in UNION {[1..n -> RunItems] : n \in 0..MaxManifest}
    /\ disk \in SUBSET InitNames
    /\ playlist \in InitPlaylists
    /\ observed = NoPlaylist

SpecRun == InitRun /\ [][Next]_vars

----------------------------------------------------------------------------
(* One call of acquire_lock on any lock file, owner and clock *)

LockTimes == {0, 1, 100}

LockNows == {100, 3601, 3700, 3701}

InitLock ==
    /\ InitProcs(MaxCycles)
    /\ NoPower
    /\ NoSched
    /\ NoHealth
    /\ NoArchive
    /\ now \in LockNows
    /\ extern \in [ExtPids -> ProbeOutcomes]
    /\ lock \in {NoLock, CorruptLock} \cup
                {LockRecord(e, t) : e \in ExtPids, t \in LockTimes}
    /\ manifest = <<>>
    /\ disk = {}
    /\ playlist = NoPlaylist
    /\ observed = NoPlaylist

NextLock ==
    \/ Start(Main)
    \/ LockExists(Main)
    \/ LockCreate(Main)
    \/ LockRead(Main)
    \/ LockRefuse(Main)
    \/ LockDecide(Main)
    \/ LockUnlink(Main)
    \/ LockWrite(Main)

SpecLock == InitLock /\ [][NextLock]_vars

----------------------------------------------------------------------------
(* One run of the schedule sync and one run of sync() on one device, in any *)
(* order and interleaving                                                   *)

InitDevice ==
    /\ InitProcs(1)
    /\ NoHealth
    /\ NoArchive
    /\ InitOwner
    /\ manifest \in {<<>>, <<Item(PA)>>}
    /\ disk \in SUBSET InitNames
    /\ playlist = NoPlaylist
    /\ observed = NoPlaylist
    /\ schedule_file \in {NoScheduleFile,
                          ScheduleFile(JsonList(<<Rule("true", 1, SameDay[1], SameDay[2])>>))}
    /\ wall = [weekday |-> 0, time |-> 0]
    /\ tv = "standby"
    /\ ppc = "idle"
    /\ ploc = NoPLocals
    /\ cec = <<>>
    /\ phist = PowerHistory(0)
    /\ spc = "idle"
    /\ sloc = NoSLocals
    /\ srun = NoSchedRun(1)

NextDevice ==
    \/ SyncStep(Main)
    \/ NextSched

SpecDevice == InitDevice /\ [][NextDevice]_vars

----------------------------------------------------------------------------
(* Overlapping invocations of sync() on one device *)

InitConc ==
    /\ InitProcs(MaxConcRuns)
    /\ NoPower
    /\ NoSched
    /\ NoHealth
    /\ NoArchive
    /\ now = 100
    /\ extern = [e \in ExtPids |-> "nosuch"]
    /\ lock = NoLock
    /\ manifest = <<Item(PA)>>
    /\ disk = {"x.bin"}
    /\ playlist = NoPlaylist
    /\ observed = NoPlaylist

NextConc ==
    \/ Tick
    \/ \E p \in Procs : SyncStep(p)

SpecConc == InitConc /\ [][NextConc]_vars

----------------------------------------------------------------------------
(* sync() while the player reads the playlist *)

InitPlay ==
    /\ InitProcs(MaxCycles)
    /\ NoPower
    /\ NoSched
    /\ NoHealth
    /\ NoArchive
    /\ InitOwner
    /\ manifest \in {m \in Manifests : Len(m) <= 1}
    /\ disk \in SUBSET InitNames
    /\ playlist \in InitPlaylists
    /\ observed = NoPlaylist

NextPlay ==
    \/ PlayerRead
    \/ SyncStep(Main)

SpecPlay == InitPlay /\ [][NextPlay]_vars

----------------------------------------------------------------------------
(* Claims *)

\* a process between a successful acquire_lock and the release of line 389
Holding(p) ==
    pc[p] \in {"locked", "fetched", "scan", "download", "delete", "write",
               "writing", "finally"}

\* a process not inside sync()
Ended(p) == pc[p] = "idle" /\ run[p].started

\* acquire_lock of the current run has returned and sync has not gone on yet
Returned(p) ==
    /\ run[p].acquired # "pending"
    /\ pc[p] \in {"locked", "idle"}
    /\ ~run[p].fetched
    /\ run[p].outcome \in {"none", "skipped"}

\* C1 (SpecConc): at most one invocation of sync() is between a successful
\* acquire_lock and its release at any time.
C1_MutualExclusion == Cardinality({p \in Procs : Holding(p)}) <= 1

\* C2 (Spec): with the manifest fixed and no failure other than of downloads,
\* once more reconciliation cycles have completed than downloads have failed,
\* the on-disk set of media names equals the target set.
C2_Convergence ==
    (/\ Ended(Main)
     /\ ~stats.other
     /\ stats.cycles > stats.dlFails)
    => ExistingFiles(disk) = TargetNames(manifest)

\* C3 (Spec): an asset whose download failed in one cycle has its download
\* attempted again in the next cycle with the same manifest.
C3_RetryNextCycle ==
    (/\ Ended(Main)
     /\ prev[Main].started
     /\ run[Main].outcome \in {"unchanged", "synced"})
    => prev[Main].failed \subseteq run[Main].attempted

NamesFiles(campaigns) ==
    \A i \in 1..Len(campaigns) :
        campaigns[i].media_file = NoFile \/ SplitLast(campaigns[i].media_file) # ""

CompleteDocuments ==
    InitPlaylists \cup {PlaylistFile(generate_playlist_content(manifest))}

\* C5 (SpecPlay): whatever the player reads from the playlist path is a
\* complete playlist document, the previous one or the new one.
C5_AtomicPublication == observed \in CompleteDocuments

\* the liveness probe says the recorded owner exists
OwnerAlive(file) == Probe(file.pid) \in {"ok", "perm"}

\* C6 (SpecLock): for a parsable lock record whose owner is running (or the
\* probe is denied) and whose age is at most the threshold, acquire_lock
\* returns false, with and without force, and leaves the record as it was.
C6_LockExclusivity ==
    \A p \in Procs :
        (/\ Returned(p)
         /\ run[p].lock0.exists /\ run[p].lock0.parsable
         /\ OwnerAlive(run[p].lock0)
         /\ run[p].now0 - run[p].lock0.ts <= LOCK_STALE_SECONDS)
        => run[p].acquired = "no" /\ lock = run[p].lock0

\* C6: a forced call was refused at an age of exactly the threshold, the probe
\* of the owner denied
C6_Witness ==
    /\ Returned(Main)
    /\ run[Main].force
    /\ run[Main].lock0.parsable
    /\ Probe(run[Main].lock0.pid) = "perm"
    /\ run[Main].now0 - run[Main].lock0.ts = LOCK_STALE_SECONDS
    /\ run[Main].acquired = "no"

\* C7 (SpecLock): for a lock record whose process does not exist, acquire_lock
\* returns true at any age and for any force, and the record then holds the
\* caller's pid and the current time.
C7_LockRecovery ==
    \A p \in Procs :
        (/\ Returned(p)
         /\ run[p].lock0.exists /\ run[p].lock0.parsable
         /\ Probe(run[p].lock0.pid) = "nosuch")
        => run[p].acquired = "yes" /\ lock = LockRecord(p, run[p].now0)

\* C7: an unforced call took over a young lock of a process that is gone
C7_Witness ==
    /\ Returned(Main)
    /\ ~run[Main].force
    /\ run[Main].lock0.parsable
    /\ Probe(run[Main].lock0.pid) = "nosuch"
    /\ run[Main].now0 - run[Main].lock0.ts < LOCK_STALE_SECONDS
    /\ lock = LockRecord(Main, now)

\* C8 (SpecLock): for a parsable lock record older than the threshold,
\* whatever its timestamp, acquire_lock writes a fresh record for the caller
\* and returns true even if the owner runs; at an age of exactly the threshold
\* with a live owner it returns false.
C8_StaleOverride ==
    \A p \in Procs :
        (/\ Returned(p)
         /\ run[p].lock0.exists /\ run[p].lock0.parsable)
        => /\ run[p].now0 - run[p].lock0.ts > LOCK_STALE_SECONDS
              => run[p].acquired = "yes" /\ lock = LockRecord(p, run[p].now0)
           /\ (/\ run[p].now0 - run[p].lock0.ts = LOCK_STALE_SECONDS
               /\ OwnerAlive(run[p].lock0))
              => run[p].acquired = "no"

\* C9 (FairSpec): every run of sync() that acquired the lock ends, with the
\* lock record deleted, on every exit path; a failed fetch and an unexpected
\* exception end it with exit status 1.
C9_GuaranteedRelease ==
    /\ Holding(Main) ~> (Ended(Main) /\ ~lock.exists)
    /\ [](Ended(Main) /\ run[Main].acquired = "yes"
            => /\ ~lock.exists
               /\ run[Main].exit = IF run[Main].outcome \in {"fetch_failed", "failed"}
                                   THEN 1 ELSE 0)

\* C9: a run that acquired the lock ended on an unexpected exception with the
\* lock record gone
C9_Witness ==
    /\ Ended(Main)
    /\ run[Main].acquired = "yes"
    /\ run[Main].outcome = "failed"
    /\ run[Main].exit = 1
    /\ ~lock.exists

\* the step of sync() that compares the target set (line 334)
Compared(p) == pc[p] = "fetched" /\ pc'[p] # "fetched"

DownloadsDone(p) ==
    /\ run[p].attempted = run[p].missing
    /\ run[p].calls = Cardinality(run[p].missing)
    /\ run[p].downloads = {TargetPath(manifest, b) : b \in run[p].missing}

\* the deletion of every unused file was attempted
RemovalsDone(p) == run[p].removed \cup run[p].keptOnError = run[p].unused

\* C11 (SpecRun): a run that detected a difference and listed the media
\* directory attempts one download for each basename of the target set that
\* is not on disk, with the server path of the target set, and none for a
\* basename on disk; when a download failed, the remaining downloads, the
\* deletions and the playlist write of the run are still made.
C11_DownloadStep ==
    (Ended(Main) /\ run[Main].scanned)
    => /\ DownloadsDone(Main)
       /\ run[Main].missing \cap run[Main].unused = {}
       /\ run[Main].failed # {} => RemovalsDone(Main) /\ run[Main].writes = 1

RECURSIVE PlaylistEntries(_)
PlaylistEntries(campaigns) ==
    IF campaigns = <<>> THEN <<>>
    ELSE LET media_file == Head(campaigns).media_file
             basename == PathName(media_file)
         IN  (IF media_file # NoFile
              THEN <<InfLine(media_file, basename), PathLine(Append(MEDIA_DIR, basename))>>
              ELSE <<>>)
             \o PlaylistEntries(Tail(campaigns))

\* C14 (SpecRun): the document generate_playlist_content gives for a manifest
\* is the header line and then, for each item with a media_file in manifest
\* order, a metadata line with the server path and a line with the local path
\* media_dir/basename; nothing else.
C14_PlaylistContent ==
    (Ended(Main) /\ run[Main].written)
    => playlist = PlaylistFile(<<HeaderLine>> \o PlaylistEntries(manifest))

\* C15 (SpecRun): a run with a manifest without media items that compared the
\* target set, with no failed deletion or playlist write, leaves no media file
\* on disk and a playlist of the header line only.
C15_EmptyTarget ==
    (/\ Ended(Main)
     /\ TargetNames(manifest) = {}
     /\ \/ run[Main].outcome = "unchanged"
        \/ /\ run[Main].outcome = "synced"
           /\ run[Main].written
           /\ run[Main].keptOnError = {})
    => disk = {} /\ playlist = PlaylistFile(<<HeaderLine>>)

\* the fetch failed: endpoint unset, no connection, a status other than 200,
\* or a body that is not JSON
FetchFailure(resp) ==
    \/ ~resp.api_url
    \/ ~resp.reachable
    \/ resp.status # 200
    \/ ~resp.json

\* C16 (SpecRun): when fetch_campaigns fails the fetch is not made again, the
\* media directory and the playlist stay as they were when the run began, and
\* the run ends with exit status 1 and the lock record removed.
C16_FetchFailureAborts ==
    \A p \in Procs :
        (\E resp \in run[p].response : FetchFailure(resp))
        => /\ run[p].fetches = 1
           /\ ~run[p].fetched
           /\ pc[p] \in {"finally", "idle"}
           /\ run[p].exit = 1
           /\ disk = run[p].disk0
           /\ playlist = run[p].playlist0
           /\ run[p].calls = 0 /\ run[p].writes = 0
           /\ Ended(p) => ~lock.exists

\* C16: a run ended on a status other than 200, with media files, a playlist
\* and work to do left as they were
C16_Witness ==
    /\ Ended(Main)
    /\ \E resp \in run[Main].response : resp.status = 204
    /\ run[Main].exit = 1
    /\ ~lock.exists
    /\ disk # {}
    /\ playlist.exists
    /\ TargetNames(manifest) # get_playlist_media_names(playlist)

\* C17 (SpecRun): a run whose acquire_lock returned false has fetched,
\* downloaded, deleted and written nothing, has left the lock record, the
\* media directory and the playlist as they were, and has ended with status 0.
C17_LockSkipFrame ==
    \A p \in Procs :
        run[p].acquired = "no"
        => /\ pc[p] = "idle"
           /\ run[p].fetches = 0 /\ ~run[p].fetched
           /\ run[p].calls = 0 /\ run[p].attempted = {}
           /\ run[p].removed \cup run[p].keptOnError = {}
           /\ run[p].writes = 0
           /\ lock = run[p].lock0 /\ lock.exists
           /\ disk = run[p].disk0
           /\ playlist = run[p].playlist0
           /\ run[p].exit = 0

\* C17: a run was skipped although the manifest asked for changes
C17_Witness ==
    /\ Ended(Main)
    /\ run[Main].acquired = "no"
    /\ lock.exists
    /\ disk # {}
    /\ TargetNames(manifest) # get_playlist_media_names(playlist)

\* decide_power_state has returned in the current (or last) run of main()
Decided == ppc \in {"decided", "queried", "ended"} /\ ploc.schedule.type = "list"

\* the weekday of the clock in the convention of the schedule: 1 is Monday
Today == wall.weekday + 1

\* a rule that is active, for today, with both times parsable
Honoured(item) ==
    /\ item.is_active # "false"
    /\ item.day_of_week = Today
    /\ item.turn_on_time # NoTime /\ parse_api_time(item.turn_on_time).ok
    /\ item.shut_down_time # NoTime /\ parse_api_time(item.shut_down_time).ok

\* the positions of the honoured rules in the loaded schedule
HonouredAt == {i \in 1..Len(ploc.schedule.items) : Honoured(ploc.schedule.items[i])}

\* the first of them in document order
FirstHonoured == ploc.schedule.items[CHOOSE i \in HonouredAt : \A j \in HonouredAt : i <= j]

TurnOn(item) == parse_api_time(item.turn_on_time).time

ShutDown(item) == parse_api_time(item.shut_down_time).time

\* C18 (SpecPower): when the honoured rule of the current weekday (1 = Monday
\* .. 7 = Sunday) has turn_on_time <= shut_down_time, decide_power_state
\* returns true exactly when turn_on_time <= now <= shut_down_time, both
\* bounds included.
C18_SameDayWindow ==
    (Decided /\ HonouredAt # {} /\ TurnOn(FirstHonoured) <= ShutDown(FirstHonoured))
    => (ploc.should_be_on
        <=> /\ TurnOn(FirstHonoured) <= wall.time
            /\ wall.time <= ShutDown(FirstHonoured))

\* C18: on a Sunday the decision is on at the very shut_down_time of a
\* same-day rule
C18_Witness ==
    /\ Decided
    /\ HonouredAt # {}
    /\ wall.weekday = 6
    /\ FirstHonoured.day_of_week = 7
    /\ TurnOn(FirstHonoured) < ShutDown(FirstHonoured)
    /\ wall.time = ShutDown(FirstHonoured)
    /\ ploc.should_be_on

\* C19 (SpecPower): when the honoured rule of the current weekday has
\* turn_on_time > shut_down_time, decide_power_state returns true exactly
\* when now >= turn_on_time or now <= shut_down_time.
C19_OvernightWindow ==
    (Decided /\ HonouredAt # {} /\ TurnOn(FirstHonoured) > ShutDown(FirstHonoured))
    => (ploc.should_be_on
        <=> \/ wall.time >= TurnOn(FirstHonoured)
            \/ wall.time <= ShutDown(FirstHonoured))

\* C19: the decision is on at 01:00 under an overnight rule
C19_Witness ==
    /\ Decided
    /\ HonouredAt # {}
    /\ TurnOn(FirstHonoured) > ShutDown(FirstHonoured)
    /\ wall.time = TimeOfDay(1, 0, 0)
    /\ ploc.should_be_on

\* C20 (SpecPower): the result of decide_power_state is the one it gives for
\* the schedule made of the first honoured rule alone; later rules of the
\* weekday change nothing.
C20_FirstMatchWins ==
    (Decided /\ HonouredAt # {})
    => ploc.should_be_on = decide_power_state(JsonList(<<FirstHonoured>>), wall)

\* C20: the decision is off although the time is inside the window of a later
\* rule of the day
C20_Witness ==
    /\ Decided
    /\ ~ploc.should_be_on
    /\ \E i \in HonouredAt :
          LET item == ploc.schedule.items[i]
          IN  /\ item # FirstHonoured
              /\ TurnOn(item) <= wall.time
              /\ wall.time <= ShutDown(item)

\* the rules of the loaded schedule
LoadedRules == ploc.schedule.items

\* C21 (SpecPower): when no rule of the schedule is active (is_active other
\* than false) and for the current weekday, decide_power_state returns false;
\* inactive rules and rules of other weekdays never turn the result on,
\* whatever their windows.
C21_DefaultOff ==
    (Decided /\ \A i \in DOMAIN LoadedRules :
                   \/ LoadedRules[i].is_active = "false"
                   \/ LoadedRules[i].day_of_week # Today)
    => ~ploc.should_be_on

\* C21: the decision is off at noon although an inactive rule of the day and
\* an active rule of another day both have a window around noon
C21_Witness ==
    /\ Decided
    /\ ~ploc.should_be_on
    /\ wall.time = TimeOfDay(12, 0, 0)
    /\ \E i \in DOMAIN LoadedRules :
          /\ LoadedRules[i].is_active = "false"
          /\ LoadedRules[i].day_of_week = Today
          /\ LoadedRules[i].turn_on_time = SameDay[1]
    /\ \E i \in DOMAIN LoadedRules :
          /\ LoadedRules[i].is_active = "true"
          /\ LoadedRules[i].day_of_week # Today
          /\ LoadedRules[i].turn_on_time = SameDay[1]

\* the time strings strptime accepts: HH:MM or HH:MM:SS within range
TimeStrings ==
    {<<h, m>> : h \in 0..23, m \in {0, 30}}
    \cup {<<h, m, s>> : h \in 0..23, m \in {0, 30}, s \in {0, 1}}

\* an active rule of the day with both times given, one of them unparsable
Malformed(item) ==
    /\ item.is_active # "false"
    /\ item.day_of_week = Today
    /\ item.turn_on_time # NoTime /\ item.shut_down_time # NoTime
    /\ item.turn_on_time \notin TimeStrings \/ item.shut_down_time \notin TimeStrings

\* the loaded schedule without the malformed rules
WellFormedRules == SelectSeq(LoadedRules, LAMBDA item : ~Malformed(item))

C22_WitnessAlone ==
    /\ Decided
    /\ Len(LoadedRules) = 1
    /\ Malformed(LoadedRules[1])
    /\ ~ploc.should_be_on

\* C23 (SpecPower): for a null, empty or non-list schedule document
\* decide_power_state returns false, and a run of main() on such a schedule
\* file ends without a decision for on and without a command that turns the
\* display on.
C23_DegenerateSchedule ==
    /\ \A doc \in {JsonNull, JsonList(<<>>), JsonObject} : ~decide_power_state(doc, wall)
    /\ (/\ schedule_file \in {ScheduleFile(JsonNull), ScheduleFile(JsonList(<<>>)),
                              ScheduleFile(JsonObject)}
        /\ ppc \in {"decided", "queried", "ended"})
       => /\ ~ploc.should_be_on
          /\ \A i \in DOMAIN cec : cec[i].input[1] # "on 0"

\* C23: a run on a schedule file holding an object has ended with the decision
\* off and has turned the display off
C23_Witness ==
    /\ schedule_file = ScheduleFile(JsonObject)
    /\ ppc = "ended"
    /\ ploc.schedule = JsonObject
    /\ ~ploc.should_be_on
    /\ cec = <<Invocation(<<"pow 0">>), Invocation(<<"standby 0">>)>>

\* the invocation of wake_tv_aggressive and the one of set_tv_power("on")
WakeSequence == Invocation(<<"on 0", "tx 10:04", "as">>)

PlainOn == Invocation(<<"on 0">>)

\* C25 (SpecPower): a run whose decision is on and whose status query reports
\* standby issues, after the query, the wake sequence (on 0, tx 10:04, as) in
\* one invocation and no plain power-on.
C25_AggressiveWake ==
    (ppc = "ended" /\ ploc.should_be_on /\ ploc.actual_state = "standby")
    => /\ cec = <<Invocation(<<"pow 0">>), WakeSequence>>
       /\ \A i \in DOMAIN cec : cec[i] # PlainOn

\* C25: such a run has ended and the display has come on
C25_Witness ==
    /\ ppc = "ended"
    /\ ploc.should_be_on
    /\ ploc.actual_state = "standby"
    /\ WakeSequence = cec[Len(cec)]
    /\ tv = "on"

\* C28 (SpecLock): when there is no lock file, acquire_lock writes the record
\* pid:timestamp with the caller's pid and the current time and returns true,
\* with force set and without.
C28_FreshAcquire ==
    \A p \in Procs :
        (Returned(p) /\ ~run[p].lock0.exists)
        => /\ run[p].acquired = "yes"
           /\ run[p].probes = 0
           /\ lock = LockRecord(p, run[p].now0)

\* C28: a forced call found no lock file and holds the lock
C28_Witness ==
    /\ Returned(Main)
    /\ run[Main].force
    /\ run[Main].lock0 = NoLock
    /\ run[Main].acquired = "yes"
    /\ lock = LockRecord(Main, now)

\* C28: and an unforced one
C28_WitnessUnforced ==
    /\ Returned(Main)
    /\ ~run[Main].force
    /\ run[Main].lock0 = NoLock
    /\ run[Main].acquired = "yes"
    /\ lock = LockRecord(Main, now)

\* C29 (SpecLock): when the lock file exists and does not parse as
\* pid:timestamp, acquire_lock does not call is_process_running, replaces the
\* file by the record of the caller and the current time, and returns true.
C29_UnparsableLock ==
    \A p \in Procs :
        (Returned(p) /\ run[p].lock0.exists /\ ~run[p].lock0.parsable)
        => /\ run[p].acquired = "yes"
           /\ run[p].probes = 0
           /\ lock = LockRecord(p, run[p].now0)

\* C29: an unforced call replaced an unparsable lock file while another
\* program was running
C29_Witness ==
    /\ Returned(Main)
    /\ ~run[Main].force
    /\ run[Main].lock0 = CorruptLock
    /\ \E e \in ExtPids : extern[e] = "ok"
    /\ run[Main].acquired = "yes"
    /\ lock = LockRecord(Main, now)

\* the invocations that change the power of the display
PowerCommands(invocations) ==
    SelectSeq(invocations, LAMBDA v : v # Invocation(<<"pow 0">>))

StandbyCommand == Invocation(<<"standby 0">>)

\* a run of main() has ended with the decision on, and so had the run before
TwoRunsOn ==
    /\ ppc = "ended"
    /\ ploc.schedule # JsonNull /\ ploc.should_be_on
    /\ phist.prev.loaded /\ phist.prev.should_be_on

\* C24 (SpecPowerRuns): when main() runs twice in a row with the decision on
\* both times, the second run issues no power command, whatever the status
\* query answers, and the first two runs together issue exactly one power-on
\* (wake sequence or plain on).
C24_PowerIdempotence ==
    TwoRunsOn
    => /\ PowerCommands(cec) = <<>>
       /\ phist.runs = 2
          => Len(PowerCommands(phist.prev.cec)) + Len(PowerCommands(cec)) = 1

\* C26 (SpecPowerRuns): every run of main() that loaded a schedule has sent a
\* power command matching its decision: a power-on (plain or wake sequence)
\* when the decision is on, standby when it is off.
C26_StatelessReassertion ==
    (ppc = "ended" /\ ploc.schedule # JsonNull)
    => \E i \in DOMAIN cec :
          IF ploc.should_be_on THEN cec[i] \in {PlainOn, WakeSequence}
          ELSE cec[i] = StandbyCommand

\* C27 (SpecSched): after a run of the schedule sync whose fetch_schedule
\* returned, the schedule file holds exactly the schedules value that was
\* returned, an empty array included.
C27_CacheVerbatim ==
    (spc = "ended" /\ srun.fetched) => schedule_file = ScheduleFile(srun.returned)

\* C30 (SpecHealth): a run of health_check without HEALTHCHECK_URL sends no
\* request and returns; with the URL it sends one request, returns (status 0)
\* when urlopen hands back a response, whatever its status, and exits with
\* status 1 when urlopen raises HTTPError (an answer of 400 and above),
\* URLError or anything else.
C30_HealthOutcomes ==
    hpc = "ended"
    => /\ ~hrun.url => (hrun.requests = 0 /\ hrun.exit = 0)
       /\ hrun.url
          => /\ hrun.requests = 1
             /\ (hrun.ping.fault = "none" /\ hrun.ping.status < 400) => hrun.exit = 0
             /\ (hrun.ping.fault # "none" \/ hrun.ping.status >= 400) => hrun.exit = 1

\* C30: a run exited with status 1 on an HTTP error and the next one returned
\* on an answer of 204
C30_Witness ==
    /\ hpc = "ended"
    /\ hrun.url
    /\ hrun.log # <<>>
    /\ hrun.log[Len(hrun.log)] = 1
    /\ hrun.ping = Ping("none", 204)
    /\ hrun.requests = 1
    /\ hrun.exit = 0

\* C30: a run without the URL returned without a request
C30_WitnessNoUrl ==
    /\ hpc = "ended"
    /\ ~hrun.url
    /\ hrun.requests = 0
    /\ hrun.exit = 0

\* C31 (SpecPower): a run of main() that loaded a schedule issues, after the
\* status query: with the decision off, standby exactly when the reported
\* status is on; with the decision on, nothing for a reported on and the
\* plain power-on alone for an unknown status; never more than one
\* power-changing invocation.
C31_PowerBranches ==
    (ppc = "ended" /\ ploc.schedule # JsonNull)
    => /\ Len(PowerCommands(cec)) <= 1
       /\ ~ploc.should_be_on
          => PowerCommands(cec) = IF ploc.actual_state = "on"
                                  THEN <<StandbyCommand>> ELSE <<>>
       /\ (ploc.should_be_on /\ ploc.actual_state = "on") => PowerCommands(cec) = <<>>
       /\ (ploc.should_be_on /\ ploc.actual_state = "unknown")
          => PowerCommands(cec) = <<PlainOn>>

\* C31: the decision is off, the display reported on and was sent to standby
C31_Witness ==
    /\ ppc = "ended"
    /\ ploc.schedule # JsonNull
    /\ ~ploc.should_be_on
    /\ ploc.actual_state = "on"
    /\ cec = <<Invocation(<<"pow 0">>), StandbyCommand>>
    /\ tv = "standby"

\* C32 (SpecPower): with the schedule file missing or not loadable as JSON,
\* no step of a run of main() invokes cec-client or changes the power of the
\* display.
C32_NoScheduleNoActuation ==
    [][(schedule_file \in {NoScheduleFile, BadScheduleFile})
        => (cec' = <<>> /\ tv' = tv)]_vars

\* C32: a run on a schedule file that is not JSON has ended, the display on
C32_Witness ==
    /\ schedule_file = BadScheduleFile
    /\ ppc = "ended"
    /\ cec = <<>>
    /\ tv = "on"

\* C33 (SpecSched): when the fetch of the schedule fails (HOST_URL unset, no
\* connection, an HTTP error or another status than 200, a body that is not
\* JSON), the run ends with exit status 1, save_schedule is not called and
\* the schedule file is as it was when the run began.
C33_ScheduleFetchFailure ==
    (\E resp \in srun.response : FetchFailure(resp))
    => /\ spc = "ended"
       /\ ~srun.fetched
       /\ srun.exit = 1
       /\ srun.saves = 0
       /\ schedule_file = srun.file0

\* C33: a run ended on a status of 204 with the cached schedule kept
C33_Witness ==
    /\ spc = "ended"
    /\ \E resp \in srun.response : resp.status = 204
    /\ srun.exit = 1
    /\ schedule_file.exists /\ schedule_file.json
    /\ schedule_file.doc.items # <<>>
    /\ schedule_file = srun.file0

\* the owner recorded in the lock file found by the call is active: the record
\* parses, its process exists and it is not older than the threshold
ActiveOwner(p) ==
    /\ run[p].lock0.exists /\ run[p].lock0.parsable
    /\ Probe(run[p].lock0.pid) # "nosuch"
    /\ ~(run[p].lock0.ts # 0 /\ run[p].now0 - run[p].lock0.ts > LOCK_STALE_SECONDS)

\* C34 (SpecLock): the result of acquire_lock and the lock record it leaves
\* are a function of the lock file, the liveness of its owner and the clock
\* alone: false and the record untouched for an active owner, true and the
\* caller's record otherwise, with force set and without.
C34_ForceIndependence ==
    \A p \in Procs :
        Returned(p)
        => IF ActiveOwner(p)
           THEN run[p].acquired = "no" /\ lock = run[p].lock0
           ELSE run[p].acquired = "yes" /\ lock = LockRecord(p, run[p].now0)

\* C34: a forced call was refused by the young lock of a live owner
C34_Witness ==
    /\ Returned(Main)
    /\ run[Main].force
    /\ ActiveOwner(Main)
    /\ run[Main].acquired = "no"
    /\ lock = run[Main].lock0

\* C35 (SpecConc): the lock record a run of sync() deletes when it ends
\* (lines 388-389) is the record with its own pid.
C35_ReleaseOwnLock ==
    [][\A p \in Procs :
          (pc[p] = "finally" /\ pc'[p] = "idle" /\ lock.exists)
          => (lock.parsable /\ lock.pid = p)]_vars

\* C36 (SpecDevice): no step of a run of sync() or of the schedule sync makes
\* the cached schedule file disappear.
C36_ScheduleFileKept ==
    [][schedule_file.exists => schedule_file'.exists]_vars

\* C37 (SpecRun): once a run of sync() has written the playlist, every path
\* line of the playlist is the path of a file in the media directory.
C37_PlaylistFilesPresent ==
    \A p \in Procs :
        (run[p].written /\ pc[p] \in {"finally", "idle"})
        => \A i \in DOMAIN playlist.lines :
              playlist.lines[i].kind = "path"
              => \E f \in disk : playlist.lines[i].local = LocalPath(f)

\* the loaded schedule is one active overnight rule (turn_on_time later than
\* shut_down_time, both parsable)
OneOvernightRule ==
    /\ Decided
    /\ Len(LoadedRules) = 1
    /\ LoadedRules[1].is_active # "false"
    /\ LoadedRules[1].turn_on_time \in TimeStrings
    /\ LoadedRules[1].shut_down_time \in TimeStrings
    /\ TurnOn(LoadedRules[1]) > ShutDown(LoadedRules[1])

\* the weekday after d, 1 (Monday) after 7 (Sunday)
DayAfter(d) == (d % 7) + 1

\* C38 (SpecPower): under a schedule whose only rule is an overnight rule of
\* weekday D, decide_power_state returns true on day D from turn_on_time on
\* and on day D+1 up to shut_down_time, and false on day D before
\* turn_on_time.
C38_OvernightContinuity ==
    OneOvernightRule
    => /\ (Today = LoadedRules[1].day_of_week /\ wall.time >= TurnOn(LoadedRules[1]))
          => ploc.should_be_on
       /\ (Today = DayAfter(LoadedRules[1].day_of_week)
           /\ wall.time <= ShutDown(LoadedRules[1]))
          => ploc.should_be_on
       /\ (Today = LoadedRules[1].day_of_week /\ wall.time < TurnOn(LoadedRules[1]))
          => ~ploc.should_be_on

\* C39 (SpecArchive): whenever the player looks, the media directory is
\* either the complete directory the run found or the complete content of
\* the archive; it is never absent or partially populated.
C39_AtomicSwap ==
    \/ seen = arun.media0
    \/ arun.extracted /\ seen = Dir(arun.zip)

\* the files have a playlist with an entry
HasEntry(files) ==
    \E n \in DOMAIN files :
        /\ IsM3u(n)
        /\ files[n].text
        /\ \E i \in DOMAIN files[n].lines : files[n].lines[i] = EntryText

\* the run took the lock and then the download failed MAX_RETRIES times, the
\* disk was short of space, or the extracted archive had no playlist with an
\* entry
ArchiveRejected ==
    /\ ~arun.lock0
    /\ \/ arun.failures = MAX_RETRIES
       \/ arun.free_mb < REQUIRED_MB
       \/ arun.extracted /\ ~HasEntry(arun.zip)

\* C40 (SpecArchive): a run whose download fails after all retries, that
\* finds too little disk space or whose staged content has no playlist with
\* an entry ends with status 1, the media directory as it was, no staging
\* directory and no lock file; a run that finds the lock file returns and
\* leaves the media directory, the staging directory and the lock as they
\* were.
C40_ValidateBeforeSwap ==
    apc = "done"
    => /\ ArchiveRejected
          => /\ arun.exit = 1
             /\ media_dir = arun.media0
             /\ ~staging_dir.exists
             /\ ~sync_lock
       /\ arun.lock0
          => /\ arun.exit = 0
             /\ arun.skipped
             /\ media_dir = arun.media0
             /\ staging_dir = arun.staging0
             /\ sync_lock

\* a run over an existing media directory and a left-over staging directory
\* has ended after it rejected an archive whose playlist has no entry
C40_Witness ==
    /\ apc = "done"
    /\ arun.extracted
    /\ ~HasEntry(arun.zip)
    /\ arun.media0.exists
    /\ arun.staging0.exists
    /\ \E n \in DOMAIN arun.zip : IsM3u(n)

====
